---- MODULE Spec2Model ----
(***************************************************************************)
(* Tonic Sol-fa notation pipeline of Mark-II: the SolfegeParser            *)
(* (src/services/solfegeParser.ts) and the MIDIGenerator                   *)
(* (src/unnamed/part_002).                                                 *)
(*                                                                         *)
(* JavaScript strings whose characters the code inspects (texts, tokens,   *)
(* pitch names, part names) are sequences of one-character strings;        *)
(* strings that are only compared (durations) are TLA+ strings.            *)
(***************************************************************************)
EXTENDS Integers, Sequences, FiniteSets, TLC

VARIABLES
    pc,             \* "input": arguments being supplied; "done": the call has returned
    vlqValue,       \* writeVariableLength: its argument
    vlqOut,         \* writeVariableLength: the bytes it returned
    midiParts,      \* generateMIDI: the Part[] argument
    midiTempo,      \* generateMIDI: the tempo argument
    midiTarget,     \* generateMIDI: the targetPartName argument (<<>> = undefined)
    midiOut,        \* generateMIDI: the Uint8Array it returned
    trackMeasures,  \* createTrackChunk: the Measure[] argument
    trackTempo,     \* createTrackChunk: the tempo argument (<<>> = undefined)
    trackOut,       \* createTrackChunk: the number[] it returned
    textArg,        \* parse: the solfegeText argument
    keyArg,         \* parse: the key argument (<<>> = the empty string)
    partsLocal,     \* parse: its local variable parts when alignMeasures is called
    sequentialPartIndexLocal,  \* parse: its local sequentialPartIndex at that point
    lastExplicitPartLocal,     \* parse: its local lastExplicitPart at that point ("" = null)
    parseOut,       \* parse: the aligned parts it returned
    tokenIn,        \* parseNoteToken: the token argument
    tokenKey,       \* parseNoteToken: the key whose table is the keyMapping argument
    tokenPart,      \* parseNoteToken: the part argument
    noteData,       \* parseNoteToken: what it returned (<<>> = null)
    noteNameArg,    \* findOptimalMidi: the noteName argument
    rangeArg,       \* findOptimalMidi: the range argument
    optimalOut,     \* findOptimalMidi: the number it returned
    lineArg,        \* detectPartIndicator: the line argument
    indicatorOut,   \* detectPartIndicator: what it returned (matched FALSE = null)
    alignArg,       \* alignMeasures: the parts argument
    alignOut        \* alignMeasures: the aligned parts it returned

vlqVars == <<vlqValue, vlqOut>>
midiVars == <<midiParts, midiTempo, midiTarget, midiOut>>
trackVars == <<trackMeasures, trackTempo, trackOut>>
parseVars == <<textArg, keyArg, partsLocal, sequentialPartIndexLocal,
               lastExplicitPartLocal, parseOut>>
tokenVars == <<tokenIn, tokenKey, tokenPart, noteData>>
optimalVars == <<noteNameArg, rangeArg, optimalOut>>
indicatorVars == <<lineArg, indicatorOut>>
alignVars == <<alignArg, alignOut>>

vars == <<pc, vlqVars, midiVars, trackVars, parseVars, tokenVars, optimalVars,
          indicatorVars, alignVars>>

(***************************************************************************)
(* Bounds of the model.                                                    *)
(***************************************************************************)
MaxParts == 2       \* parts in a piece
MaxMeasures == 2    \* measures in one part
MaxPieceNotes == 2  \* notes in a piece given to generateMIDI, over all its parts
MaxTrackNotes == 3  \* notes in the measures given to createTrackChunk
MaxDense == 300     \* writeVariableLength is applied to every value 0..MaxDense
MaxLines == 3       \* lines in a text given to parse
MaxMarks == 2       \* octave marks on a token given to parseNoteToken
MaxAlign == 5       \* measures of one voice given to alignMeasures
MaxWidth == 3       \* max - min of the ranges given to findOptimalMidi beside the vocal ranges

(***************************************************************************)
(* Generic helpers.                                                        *)
(***************************************************************************)
Last(s) == s[Len(s)]

RECURSIVE Reverse(_)
Reverse(s) == IF s = <<>> THEN <<>> ELSE Append(Reverse(Tail(s)), Head(s))

RECURSIVE Flat(_)
Flat(ss) == IF ss = <<>> THEN <<>> ELSE Head(ss) \o Flat(Tail(ss))

RECURSIVE SumSeq(_)
SumSeq(s) == IF s = <<>> THEN 0 ELSE Head(s) + SumSeq(Tail(s))

Pow2(n) == CASE n = 7 -> 128 [] n = 8 -> 256 [] n = 16 -> 65536 [] n = 24 -> 16777216

\* x >> n on an int32 (arithmetic shift: floor division)
Shr(x, n) == x \div Pow2(n)

\* x & 0xFF and x & 0x7F on an int32 (two's complement: the mathematical modulus)
And0xFF(x) == x % 256
And0x7F(x) == x % 128

\* Math.floor(a / b) for integers, b # 0
MathFloorDiv(a, b) == IF b > 0 THEN a \div b ELSE (0 - a) \div (0 - b)

\* String.prototype.toLowerCase on the letters the model uses
LowerChar(c) ==
    CASE c = "A" -> "a" [] c = "B" -> "b" [] c = "C" -> "c" [] c = "D" -> "d"
      [] c = "E" -> "e" [] c = "F" -> "f" [] c = "G" -> "g" [] c = "H" -> "h"
      [] c = "I" -> "i" [] c = "K" -> "k" [] c = "L" -> "l" [] c = "M" -> "m"
      [] c = "N" -> "n" [] c = "O" -> "o" [] c = "P" -> "p" [] c = "R" -> "r"
      [] c = "S" -> "s" [] c = "T" -> "t" [] c = "U" -> "u" [] c = "Y" -> "y"
      [] OTHER -> c

toLowerCase(s) == [i \in 1..Len(s) |-> LowerChar(s[i])]

(***************************************************************************)
(* MIDIGenerator (src/unnamed/part_002)                                    *)
(***************************************************************************)

\* the table of the source, entry by entry
PITCH_TO_MIDI ==
    <<"C","0">> :> 12 @@ <<"C","#","0">> :> 13 @@ <<"D","b","0">> :> 13 @@ <<"D","0">> :> 14 @@ <<"D","#","0">> :> 15 @@ <<"E","b","0">> :> 15 @@ <<"E","0">> :> 16 @@ <<"F","0">> :> 17 @@ <<"F","#","0">> :> 18 @@ <<"G","b","0">> :> 18 @@ <<"G","0">> :> 19 @@ <<"G","#","0">> :> 20 @@ <<"A","b","0">> :> 20 @@ <<"A","0">> :> 21 @@ <<"A","#","0">> :> 22 @@ <<"B","b","0">> :> 22 @@ <<"B","0">> :> 23 @@
    <<"C","1">> :> 24 @@ <<"C","#","1">> :> 25 @@ <<"D","b","1">> :> 25 @@ <<"D","1">> :> 26 @@ <<"D","#","1">> :> 27 @@ <<"E","b","1">> :> 27 @@ <<"E","1">> :> 28 @@ <<"F","1">> :> 29 @@ <<"F","#","1">> :> 30 @@ <<"G","b","1">> :> 30 @@ <<"G","1">> :> 31 @@ <<"G","#","1">> :> 32 @@ <<"A","b","1">> :> 32 @@ <<"A","1">> :> 33 @@ <<"A","#","1">> :> 34 @@ <<"B","b","1">> :> 34 @@ <<"B","1">> :> 35 @@
    <<"C","2">> :> 36 @@ <<"C","#","2">> :> 37 @@ <<"D","b","2">> :> 37 @@ <<"D","2">> :> 38 @@ <<"D","#","2">> :> 39 @@ <<"E","b","2">> :> 39 @@ <<"E","2">> :> 40 @@ <<"F","2">> :> 41 @@ <<"F","#","2">> :> 42 @@ <<"G","b","2">> :> 42 @@ <<"G","2">> :> 43 @@ <<"G","#","2">> :> 44 @@ <<"A","b","2">> :> 44 @@ <<"A","2">> :> 45 @@ <<"A","#","2">> :> 46 @@ <<"B","b","2">> :> 46 @@ <<"B","2">> :> 47 @@
    <<"C","3">> :> 48 @@ <<"C","#","3">> :> 49 @@ <<"D","b","3">> :> 49 @@ <<"D","3">> :> 50 @@ <<"D","#","3">> :> 51 @@ <<"E","b","3">> :> 51 @@ <<"E","3">> :> 52 @@ <<"F","3">> :> 53 @@ <<"F","#","3">> :> 54 @@ <<"G","b","3">> :> 54 @@ <<"G","3">> :> 55 @@ <<"G","#","3">> :> 56 @@ <<"A","b","3">> :> 56 @@ <<"A","3">> :> 57 @@ <<"A","#","3">> :> 58 @@ <<"B","b","3">> :> 58 @@ <<"B","3">> :> 59 @@
    <<"C","4">> :> 60 @@ <<"C","#","4">> :> 61 @@ <<"D","b","4">> :> 61 @@ <<"D","4">> :> 62 @@ <<"D","#","4">> :> 63 @@ <<"E","b","4">> :> 63 @@ <<"E","4">> :> 64 @@ <<"F","4">> :> 65 @@ <<"F","#","4">> :> 66 @@ <<"G","b","4">> :> 66 @@ <<"G","4">> :> 67 @@ <<"G","#","4">> :> 68 @@ <<"A","b","4">> :> 68 @@ <<"A","4">> :> 69 @@ <<"A","#","4">> :> 70 @@ <<"B","b","4">> :> 70 @@ <<"B","4">> :> 71 @@
    <<"C","5">> :> 72 @@ <<"C","#","5">> :> 73 @@ <<"D","b","5">> :> 73 @@ <<"D","5">> :> 74 @@ <<"D","#","5">> :> 75 @@ <<"E","b","5">> :> 75 @@ <<"E","5">> :> 76 @@ <<"F","5">> :> 77 @@ <<"F","#","5">> :> 78 @@ <<"G","b","5">> :> 78 @@ <<"G","5">> :> 79 @@ <<"G","#","5">> :> 80 @@ <<"A","b","5">> :> 80 @@ <<"A","5">> :> 81 @@ <<"A","#","5">> :> 82 @@ <<"B","b","5">> :> 82 @@ <<"B","5">> :> 83 @@
    <<"C","6">> :> 84 @@ <<"C","#","6">> :> 85 @@ <<"D","b","6">> :> 85 @@ <<"D","6">> :> 86 @@ <<"D","#","6">> :> 87 @@ <<"E","b","6">> :> 87 @@ <<"E","6">> :> 88 @@ <<"F","6">> :> 89 @@ <<"F","#","6">> :> 90 @@ <<"G","b","6">> :> 90 @@ <<"G","6">> :> 91 @@ <<"G","#","6">> :> 92 @@ <<"A","b","6">> :> 92 @@ <<"A","6">> :> 93 @@ <<"A","#","6">> :> 94 @@ <<"B","b","6">> :> 94 @@ <<"B","6">> :> 95 @@
    <<"C","7">> :> 96 @@ <<"C","#","7">> :> 97 @@ <<"D","b","7">> :> 97 @@ <<"D","7">> :> 98 @@ <<"D","#","7">> :> 99 @@ <<"E","b","7">> :> 99 @@ <<"E","7">> :> 100 @@ <<"F","7">> :> 101 @@ <<"F","#","7">> :> 102 @@ <<"G","b","7">> :> 102 @@ <<"G","7">> :> 103 @@ <<"G","#","7">> :> 104 @@ <<"A","b","7">> :> 104 @@ <<"A","7">> :> 105 @@ <<"A","#","7">> :> 106 @@ <<"B","b","7">> :> 106 @@ <<"B","7">> :> 107 @@
    <<"C","8">> :> 108 @@ <<"C","#","8">> :> 109 @@ <<"D","b","8">> :> 109 @@ <<"D","8">> :> 110 @@ <<"D","#","8">> :> 111 @@ <<"E","b","8">> :> 111 @@ <<"E","8">> :> 112 @@ <<"F","8">> :> 113 @@ <<"F","#","8">> :> 114 @@ <<"G","b","8">> :> 114 @@ <<"G","8">> :> 115 @@ <<"G","#","8">> :> 116 @@ <<"A","b","8">> :> 116 @@ <<"A","8">> :> 117 @@ <<"A","#","8">> :> 118 @@ <<"B","b","8">> :> 118 @@ <<"B","8">> :> 119

\* the value null, and a non-numeric object (a property inherited from
\* Object.prototype), as results of a table lookup
null == 0 - 1
JsObject == 0 - 2

\* names every plain object inherits from Object.prototype
ObjectPrototypeKeys ==
    { <<"c","o","n","s","t","r","u","c","t","o","r">>,
      <<"t","o","S","t","r","i","n","g">>,
      <<"v","a","l","u","e","O","f">> }

pitchToMidiNumber(pitch) ==
    IF pitch \in DOMAIN PITCH_TO_MIDI THEN PITCH_TO_MIDI[pitch]
    ELSE IF pitch \in ObjectPrototypeKeys THEN JsObject
    ELSE null

\* new Uint8Array([...]): each element by ToUint8 (a non-number is NaN, stored as 0)
Uint8Array(s) == [i \in 1..Len(s) |-> IF s[i] = JsObject THEN 0 ELSE s[i] % 256]

\* createMidiHeader with the track count left at one
createMidiHeader_OneTrack(numTracks) ==
    << 77, 84, 104, 100, 0, 0, 0, 6, 0, 1, 0, 1, 0, 96 >>

createMidiHeader(numTracks) ==
    << 77, 84, 104, 100,
       0, 0, 0, 6,
       0, 1,
       And0xFF(Shr(numTracks, 8)), And0xFF(numTracks),
       0, 96 >>

REST == <<"r","e","s","t">>
ALL == <<"a","l","l">>

ticksPerQuarter == 96

\* durationToTicks with the eighth and sixteenth cases exchanged
durationToTicks_Swapped(duration) ==
    CASE duration = "whole" -> ticksPerQuarter * 4
      [] duration = "half" -> ticksPerQuarter * 2
      [] duration = "quarter" -> ticksPerQuarter
      [] duration = "eighth" -> ticksPerQuarter \div 4
      [] duration = "sixteenth" -> ticksPerQuarter \div 2
      [] OTHER -> ticksPerQuarter

durationToTicks(duration) ==
    CASE duration = "whole" -> ticksPerQuarter * 4
      [] duration = "half" -> ticksPerQuarter * 2
      [] duration = "quarter" -> ticksPerQuarter
      [] duration = "eighth" -> ticksPerQuarter \div 2
      [] duration = "sixteenth" -> ticksPerQuarter \div 4
      [] OTHER -> ticksPerQuarter

RECURSIVE writeVariableLengthLoop(_, _)
writeVariableLengthLoop(v, buffer) ==
    IF v > 0
    THEN LET byte == And0x7F(v)
             flagged == IF Len(buffer) > 0 THEN byte + 128 ELSE byte
         IN writeVariableLengthLoop(Shr(v, 7), Append(buffer, flagged))
    ELSE buffer

\* writeVariableLength without the final reverse
writeVariableLength_NoReverse(value) ==
    IF value = 0 THEN <<0>> ELSE writeVariableLengthLoop(value, <<>>)

writeVariableLength(value) ==
    IF value = 0 THEN <<0>> ELSE Reverse(writeVariableLengthLoop(value, <<>>))

\* writeTempo shifting the first byte by 8 instead of 16
writeTempo_Shift8(microsecondsPerBeat) ==
    << And0xFF(Shr(microsecondsPerBeat, 8)),
       And0xFF(Shr(microsecondsPerBeat, 8)),
       And0xFF(microsecondsPerBeat) >>

writeTempo(microsecondsPerBeat) ==
    << And0xFF(Shr(microsecondsPerBeat, 16)),
       And0xFF(Shr(microsecondsPerBeat, 8)),
       And0xFF(microsecondsPerBeat) >>

\* write32Bit least significant byte first
write32Bit_LittleEndian(value) ==
    << And0xFF(value), And0xFF(Shr(value, 8)), And0xFF(Shr(value, 16)), And0xFF(Shr(value, 24)) >>

write32Bit(value) ==
    << And0xFF(Shr(value, 24)), And0xFF(Shr(value, 16)), And0xFF(Shr(value, 8)), And0xFF(value) >>

\* the notes.forEach loop without the reset of accumulatedDeltaTicks
RECURSIVE createTrackChunkNotes_NoReset(_, _, _)
createTrackChunkNotes_NoReset(notes, eventData, accumulatedDeltaTicks) ==
    IF notes = <<>> THEN eventData
    ELSE LET note == Head(notes)
             durationTicks == durationToTicks(note.duration)
             midiNumber == pitchToMidiNumber(note.pitch)
         IN IF note.pitch = REST \/ midiNumber = null
            THEN createTrackChunkNotes_NoReset(Tail(notes), eventData,
                                               accumulatedDeltaTicks + durationTicks)
            ELSE createTrackChunkNotes_NoReset(Tail(notes),
                    eventData \o writeVariableLength(accumulatedDeltaTicks)
                              \o <<144, midiNumber, 100>>
                              \o writeVariableLength(durationTicks)
                              \o <<128, midiNumber, 0>>,
                    accumulatedDeltaTicks)

\* the notes.forEach loop of createTrackChunk
RECURSIVE createTrackChunkNotes(_, _, _)
createTrackChunkNotes(notes, eventData, accumulatedDeltaTicks) ==
    IF notes = <<>> THEN eventData
    ELSE LET note == Head(notes)
             durationTicks == durationToTicks(note.duration)
             midiNumber == pitchToMidiNumber(note.pitch)
         IN IF note.pitch = REST
            THEN createTrackChunkNotes(Tail(notes), eventData,
                                       accumulatedDeltaTicks + durationTicks)
            ELSE IF midiNumber = null
            THEN createTrackChunkNotes(Tail(notes), eventData,
                                       accumulatedDeltaTicks + durationTicks)
            ELSE createTrackChunkNotes(Tail(notes),
                    eventData \o writeVariableLength(accumulatedDeltaTicks)
                              \o <<144, midiNumber, 100>>
                              \o writeVariableLength(durationTicks)
                              \o <<128, midiNumber, 0>>,
                    0)

\* createTrackChunk writing the ticks still accumulated after the last
\* sounding note as the delta-time of end-of-track
createTrackChunk_PendingAtEnd(measures, tempo) ==
    LET notes == Flat([i \in 1..Len(measures) |-> measures[i].notes])
        Silent(k) == notes[k].pitch = REST \/ pitchToMidiNumber(notes[k].pitch) = null
        trailing == { k \in 1..Len(notes) : \A j \in k..Len(notes) : Silent(j) }
        pending == SumSeq([k \in 1..Len(notes) |->
                              IF k \in trailing THEN durationToTicks(notes[k].duration)
                              ELSE 0])
        tempoEvent ==
            IF tempo # <<>> /\ tempo[1] # 0
            THEN writeVariableLength(0) \o <<255, 81, 3>>
                 \o writeTempo(MathFloorDiv(60000000, tempo[1]))
            ELSE <<>>
        eventData == createTrackChunkNotes(notes, tempoEvent, 0)
                     \o writeVariableLength(pending) \o <<255, 47, 0>>
        trackHeader == <<77, 84, 114, 107>> \o write32Bit(Len(eventData))
    IN trackHeader \o eventData

\* tempo: <<>> for undefined, <<t>> for the number t
createTrackChunk(measures, tempo) ==
    LET notes == Flat([i \in 1..Len(measures) |-> measures[i].notes])
        tempoEvent ==
            IF tempo # <<>> /\ tempo[1] # 0
            THEN writeVariableLength(0) \o <<255, 81, 3>>
                 \o writeTempo(MathFloorDiv(60000000, tempo[1]))
            ELSE <<>>
        eventData == createTrackChunkNotes(notes, tempoEvent, 0)
                     \o writeVariableLength(0) \o <<255, 47, 0>>
        trackHeader == <<77, 84, 114, 107>> \o write32Bit(Len(eventData))
    IN trackHeader \o eventData

\* generateMIDI passing the tempo to every track
generateMIDI_TempoEveryTrack(parts, tempo, targetPartName) ==
    LET IsTarget(p) == toLowerCase(p.partName) = toLowerCase(targetPartName)
        partsToProcess ==
            IF targetPartName # <<>> /\ toLowerCase(targetPartName) # ALL
            THEN SelectSeq(parts, IsTarget)
            ELSE parts
    IN IF Len(partsToProcess) = 0 THEN <<>>
       ELSE LET header == createMidiHeader(Len(partsToProcess))
                trackChunks == [index \in 1..Len(partsToProcess) |->
                    createTrackChunk(partsToProcess[index].measures, <<tempo>>)]
            IN Uint8Array(header \o Flat(trackChunks))

\* targetPartName: <<>> for undefined (or the empty string), else the name
generateMIDI(parts, tempo, targetPartName) ==
    LET IsTarget(p) == toLowerCase(p.partName) = toLowerCase(targetPartName)
        partsToProcess ==
            IF targetPartName # <<>> /\ toLowerCase(targetPartName) # ALL
            THEN SelectSeq(parts, IsTarget)
            ELSE parts
    IN IF Len(partsToProcess) = 0 THEN <<>>
       ELSE LET header == createMidiHeader(Len(partsToProcess))
                trackChunks == [index \in 1..Len(partsToProcess) |->
                    createTrackChunk(partsToProcess[index].measures,
                                     IF index = 1 THEN <<tempo>> ELSE <<>>)]
            IN Uint8Array(header \o Flat(trackChunks))

(***************************************************************************)
(* SolfegeParser (src/services/solfegeParser.ts)                           *)
(***************************************************************************)
\* the tables with fa of the key of F spelled B
keyMaps_FaNatural ==
    <<"C">> :> [do |-> <<"C">>, re |-> <<"D">>, mi |-> <<"E">>, fa |-> <<"F">>,
                sol |-> <<"G">>, la |-> <<"A">>, ti |-> <<"B">>] @@
    <<"G">> :> [do |-> <<"G">>, re |-> <<"A">>, mi |-> <<"B">>, fa |-> <<"C">>,
                sol |-> <<"D">>, la |-> <<"E">>, ti |-> <<"F","#">>] @@
    <<"D">> :> [do |-> <<"D">>, re |-> <<"E">>, mi |-> <<"F","#">>, fa |-> <<"G">>,
                sol |-> <<"A">>, la |-> <<"B">>, ti |-> <<"C","#">>] @@
    <<"A">> :> [do |-> <<"A">>, re |-> <<"B">>, mi |-> <<"C","#">>, fa |-> <<"D">>,
                sol |-> <<"E">>, la |-> <<"F","#">>, ti |-> <<"G","#">>] @@
    <<"F">> :> [do |-> <<"F">>, re |-> <<"G">>, mi |-> <<"A">>, fa |-> <<"B">>,
                sol |-> <<"C">>, la |-> <<"D">>, ti |-> <<"E">>] @@
    <<"B","b">> :> [do |-> <<"B","b">>, re |-> <<"C">>, mi |-> <<"D">>, fa |-> <<"E","b">>,
                    sol |-> <<"F">>, la |-> <<"G">>, ti |-> <<"A">>] @@
    <<"E","b">> :> [do |-> <<"E","b">>, re |-> <<"F">>, mi |-> <<"G">>, fa |-> <<"A","b">>,
                    sol |-> <<"B","b">>, la |-> <<"C">>, ti |-> <<"D">>]

keyMaps ==
    <<"C">> :> [do |-> <<"C">>, re |-> <<"D">>, mi |-> <<"E">>, fa |-> <<"F">>,
                sol |-> <<"G">>, la |-> <<"A">>, ti |-> <<"B">>] @@
    <<"G">> :> [do |-> <<"G">>, re |-> <<"A">>, mi |-> <<"B">>, fa |-> <<"C">>,
                sol |-> <<"D">>, la |-> <<"E">>, ti |-> <<"F","#">>] @@
    <<"D">> :> [do |-> <<"D">>, re |-> <<"E">>, mi |-> <<"F","#">>, fa |-> <<"G">>,
                sol |-> <<"A">>, la |-> <<"B">>, ti |-> <<"C","#">>] @@
    <<"A">> :> [do |-> <<"A">>, re |-> <<"B">>, mi |-> <<"C","#">>, fa |-> <<"D">>,
                sol |-> <<"E">>, la |-> <<"F","#">>, ti |-> <<"G","#">>] @@
    <<"F">> :> [do |-> <<"F">>, re |-> <<"G">>, mi |-> <<"A">>, fa |-> <<"B","b">>,
                sol |-> <<"C">>, la |-> <<"D">>, ti |-> <<"E">>] @@
    <<"B","b">> :> [do |-> <<"B","b">>, re |-> <<"C">>, mi |-> <<"D">>, fa |-> <<"E","b">>,
                    sol |-> <<"F">>, la |-> <<"G">>, ti |-> <<"A">>] @@
    <<"E","b">> :> [do |-> <<"E","b">>, re |-> <<"F">>, mi |-> <<"G">>, fa |-> <<"A","b">>,
                    sol |-> <<"B","b">>, la |-> <<"C">>, ti |-> <<"D">>]

vocalRanges ==
    [soprano |-> [min |-> 60, max |-> 81, defaultOctave |-> 5],
     alto    |-> [min |-> 55, max |-> 76, defaultOctave |-> 4],
     tenor   |-> [min |-> 48, max |-> 69, defaultOctave |-> 4],
     bass    |-> [min |-> 36, max |-> 60, defaultOctave |-> 3]]

\* the table with "si" read as sol
solfegeVariations_SiIsSol ==
    <<"d">> :> "do" @@ <<"r">> :> "re" @@ <<"m">> :> "mi" @@ <<"f">> :> "fa" @@
    <<"s">> :> "sol" @@ <<"l">> :> "la" @@ <<"t">> :> "ti" @@
    <<"d","o">> :> "do" @@ <<"r","e">> :> "re" @@ <<"m","i">> :> "mi" @@
    <<"f","a">> :> "fa" @@ <<"s","o","l">> :> "sol" @@ <<"s","o">> :> "sol" @@
    <<"l","a">> :> "la" @@ <<"t","i">> :> "ti" @@ <<"s","i">> :> "sol"

solfegeVariations ==
    <<"d">> :> "do" @@ <<"r">> :> "re" @@ <<"m">> :> "mi" @@ <<"f">> :> "fa" @@
    <<"s">> :> "sol" @@ <<"l">> :> "la" @@ <<"t">> :> "ti" @@
    <<"d","o">> :> "do" @@ <<"r","e">> :> "re" @@ <<"m","i">> :> "mi" @@
    <<"f","a">> :> "fa" @@ <<"s","o","l">> :> "sol" @@ <<"s","o">> :> "sol" @@
    <<"l","a">> :> "la" @@ <<"t","i">> :> "ti" @@ <<"s","i">> :> "ti"

pitchClassToMidiOffset ==
    <<"C">> :> 0 @@ <<"C","#">> :> 1 @@ <<"D","b">> :> 1 @@ <<"D">> :> 2 @@
    <<"D","#">> :> 3 @@ <<"E","b">> :> 3 @@ <<"E">> :> 4 @@ <<"F">> :> 5 @@
    <<"F","#">> :> 6 @@ <<"G","b">> :> 6 @@ <<"G">> :> 7 @@ <<"G","#">> :> 8 @@
    <<"A","b">> :> 8 @@ <<"A">> :> 9 @@ <<"A","#">> :> 10 @@ <<"B","b">> :> 10 @@
    <<"B">> :> 11

partOrder == <<"soprano", "alto", "tenor", "bass">>

\* the characters \s matches, among those of the model's texts
IsSpace(c) == c \in {" ", "\n", "\t"}

\* the class [\s.:] of the token and indicator patterns
IsSeparator(c) == IsSpace(c) \/ c \in {".", ":"}

RECURSIVE TrimStart(_)
TrimStart(s) == IF s # <<>> /\ IsSpace(Head(s)) THEN TrimStart(Tail(s)) ELSE s

RECURSIVE TrimEnd(_)
TrimEnd(s) ==
    IF s # <<>> /\ IsSpace(Last(s)) THEN TrimEnd(SubSeq(s, 1, Len(s) - 1)) ELSE s

\* String.prototype.trim
trim(s) == TrimEnd(TrimStart(s))

\* s.startsWith(prefix) at position i (1-based), letters compared whatever their case
StartsWithAt(s, i, prefix) ==
    /\ i + Len(prefix) - 1 <= Len(s)
    /\ \A k \in 1..Len(prefix) : LowerChar(s[i + k - 1]) = LowerChar(prefix[k])

\* String.prototype.split on one character
RECURSIVE SplitOn(_, _, _)
SplitOn(s, c, current) ==
    IF s = <<>> THEN <<current>>
    ELSE IF Head(s) = c THEN <<current>> \o SplitOn(Tail(s), c, <<>>)
    ELSE SplitOn(Tail(s), c, Append(current, Head(s)))

split(s, c) == SplitOn(s, c, <<>>)

\* split(/[\s.:]+/) followed by filter(token => token.trim()): the maximal runs
\* of characters outside the class
RECURSIVE SplitTokens(_, _)
SplitTokens(s, current) ==
    IF s = <<>> THEN (IF current = <<>> THEN <<>> ELSE <<current>>)
    ELSE IF IsSeparator(Head(s))
         THEN (IF current = <<>> THEN <<>> ELSE <<current>>) \o SplitTokens(Tail(s), <<>>)
         ELSE SplitTokens(Tail(s), Append(current, Head(s)))

\* number of leading characters of s in the class [\s.:]
RECURSIVE SeparatorRun(_)
SeparatorRun(s) ==
    IF s # <<>> /\ IsSeparator(Head(s)) THEN 1 + SeparatorRun(Tail(s)) ELSE 0

UpperChar(c) ==
    CASE c = "a" -> "A" [] c = "b" -> "B" [] c = "c" -> "C" [] c = "d" -> "D"
      [] c = "e" -> "E" [] c = "f" -> "F" [] c = "g" -> "G" [] OTHER -> c

\* the pattern /(?:Doh is|Key:)\s*([A-G][b#]?)/i tried at position i:
\* [matched, length of match[0], match[1]]
KeyMatchAt(text, i) ==
    LET DOHIS == <<"d","o","h"," ","i","s">>
        KEYCOLON == <<"k","e","y",":">>
        RECURSIVE Spaces(_)
        Spaces(j) == IF j <= Len(text) /\ IsSpace(text[j]) THEN 1 + Spaces(j + 1) ELSE 0
        \* the tonic at position t, after an introduction of intro characters
        Tonic(intro, t) ==
            LET hasTonic == intro > 0 /\ t <= Len(text)
                              /\ LowerChar(text[t]) \in {"a","b","c","d","e","f","g"}
                hasAccidental == t + 1 <= Len(text)
                                   /\ LowerChar(text[t + 1]) \in {"b", "#"}
                last == IF hasAccidental THEN t + 1 ELSE t
            IN IF ~hasTonic THEN [matched |-> FALSE, length |-> 0, tonic |-> <<>>]
               ELSE [matched |-> TRUE,
                     length |-> last - i + 1,
                     tonic |-> SubSeq(text, t, last)]
        Introduced(intro) == Tonic(intro, i + intro + Spaces(i + intro))
    IN Introduced(IF StartsWithAt(text, i, DOHIS) THEN Len(DOHIS)
                  ELSE IF StartsWithAt(text, i, KEYCOLON) THEN Len(KEYCOLON)
                  ELSE 0)

\* text.match(...): the leftmost position where the pattern matches, 0 if none
RECURSIVE KeyMatchIndex(_, _)
KeyMatchIndex(text, i) ==
    IF i > Len(text) THEN 0
    ELSE IF KeyMatchAt(text, i).matched THEN i
    ELSE KeyMatchIndex(text, i + 1)

\* String.prototype.replace('s', '#'): the first "s" only
RECURSIVE ReplaceFirstS(_)
ReplaceFirstS(s) ==
    IF s = <<>> THEN <<>>
    ELSE IF Head(s) = "s" THEN <<"#">> \o Tail(s)
    ELSE <<Head(s)>> \o ReplaceFirstS(Tail(s))

detectKey(text) ==
    LET Detected(at, keyMatch) ==
            LET key == <<UpperChar(keyMatch.tonic[1])>>
                         \o ReplaceFirstS(toLowerCase(Tail(keyMatch.tonic)))
                cleanedText == trim(SubSeq(text, 1, at - 1)
                                    \o SubSeq(text, at + keyMatch.length, Len(text)))
            IN IF at > 0 /\ key \in DOMAIN keyMaps
               THEN [key |-> key, cleanedText |-> cleanedText]
               ELSE [key |-> <<"C">>, cleanedText |-> text]
        Matched(at) == Detected(at, KeyMatchAt(text, at))
    IN Matched(KeyMatchIndex(text, 1))

\* the alternatives of each part's pattern, in the order the pattern tries them
partPatterns ==
    [soprano |-> << <<"s","o","p","r","a","n","o">>, <<"s","o","p">>, <<"s">> >>,
     alto    |-> << <<"a","l","t","o">>, <<"a","l","t">>, <<"a">> >>,
     tenor   |-> << <<"t","e","n","o","r">>, <<"t","e","n">>, <<"t">> >>,
     bass    |-> << <<"b","a","s","s">>, <<"b","a","s">>, <<"b">> >>]

\* line.match(/^(alt1|alt2|alt3)[\s.:]+/i): [matched, match[1], length of match[0]]
PatternMatch(line, alternatives) ==
    LET Fits(k) == /\ StartsWithAt(line, 1, alternatives[k])
                   /\ Len(line) > Len(alternatives[k])
                   /\ IsSeparator(line[Len(alternatives[k]) + 1])
        fitting == { k \in 1..Len(alternatives) : Fits(k) }
    IN IF fitting = {} THEN [matched |-> FALSE, indicator |-> <<>>, length |-> 0]
       ELSE LET k == CHOOSE x \in fitting : \A y \in fitting : x <= y
                n == Len(alternatives[k])
            IN [matched |-> TRUE,
                indicator |-> SubSeq(line, 1, n),
                length |-> n + SeparatorRun(SubSeq(line, n + 1, Len(line)))]

\* the loop over Object.entries(partPatterns), from pattern number i on
RECURSIVE detectPartIndicatorFrom(_, _)
detectPartIndicatorFrom(line, i) ==
    IF i > Len(partOrder) THEN [matched |-> FALSE, part |-> "", length |-> 0]
    ELSE LET part == partOrder[i]
             match == PatternMatch(line, partPatterns[part])
             indicator == toLowerCase(match.indicator)
         IN IF match.matched
            THEN IF /\ Len(match.indicator) = 1
                    /\ indicator \in { <<"s">>, <<"t">> }
                    /\ ~(\E k \in 1..match.length : line[k] = ":")
                 THEN [matched |-> FALSE, part |-> "", length |-> 0]
                 ELSE [matched |-> TRUE, part |-> part, length |-> match.length]
            ELSE detectPartIndicatorFrom(line, i + 1)

\* null is [matched |-> FALSE, ...]
detectPartIndicator(line) == detectPartIndicatorFrom(line, 1)

\* findOptimalMidi's loop over the octaves 2..6, from octave on
RECURSIVE findOptimalMidiFrom(_, _, _)
findOptimalMidiFrom(noteIndex, range, octave) ==
    IF octave > 6 THEN 12 * (range.defaultOctave + 1) + noteIndex
    ELSE LET midiNote == 12 * (octave + 1) + noteIndex
         IN IF midiNote >= range.min /\ midiNote <= range.max
            THEN midiNote
            ELSE findOptimalMidiFrom(noteIndex, range, octave + 1)

\* findOptimalMidi using the default octave without searching
findOptimalMidi_DefaultOctave(noteName, range) ==
    12 * (range.defaultOctave + 1) + pitchClassToMidiOffset[noteName]

\* findOptimalMidi trying the octaves from 6 down to 2
findOptimalMidi_Descending(noteName, range) ==
    LET noteIndex == pitchClassToMidiOffset[noteName]
        fitting == { o \in 2..6 : 12 * (o + 1) + noteIndex >= range.min
                                    /\ 12 * (o + 1) + noteIndex <= range.max }
    IN IF fitting = {} THEN 12 * (range.defaultOctave + 1) + noteIndex
       ELSE 12 * ((CHOOSE o \in fitting : \A x \in fitting : x <= o) + 1) + noteIndex

findOptimalMidi(noteName, range) ==
    findOptimalMidiFrom(pitchClassToMidiOffset[noteName], range, 2)

solfegeToMidiNote(solfege, keyMapping, part, octaveShift) ==
    LET noteName == keyMapping[solfege]
        range == IF part \in DOMAIN vocalRanges THEN vocalRanges[part]
                 ELSE vocalRanges.soprano
        baseMidi == findOptimalMidi(noteName, range)
    IN baseMidi + (octaveShift * 12)

\* the character U+2019 (right single quotation mark)
RightQuote == "U+2019"

\* the first while loop of parseNoteToken: [cleanToken, octaveShift]
RECURSIVE StripUp(_, _)
StripUp(cleanToken, octaveShift) ==
    IF cleanToken # <<>> /\ Last(cleanToken) \in {"'", RightQuote}
    THEN StripUp(SubSeq(cleanToken, 1, Len(cleanToken) - 1), octaveShift + 1)
    ELSE [cleanToken |-> cleanToken, octaveShift |-> octaveShift]

\* the second while loop of parseNoteToken
RECURSIVE StripDown(_, _)
StripDown(cleanToken, octaveShift) ==
    IF cleanToken # <<>> /\ Last(cleanToken) \in {",", "_"}
    THEN StripDown(SubSeq(cleanToken, 1, Len(cleanToken) - 1), octaveShift - 1)
    ELSE [cleanToken |-> cleanToken, octaveShift |-> octaveShift]

\* the octave without the - 1
OctaveOf_FloorOnly(midiNote) == midiNote \div 12

\* Math.floor(midiNote / 12) - 1
OctaveOf(midiNote) == (midiNote \div 12) - 1

\* the note data as a sequence: <<>> for null, <<noteData>> for an object.
\* Every note object of the model has the same fields; a field the source
\* object lacks holds the value the code reads from it (undefined: FALSE, 0).
parseNoteToken(token, keyMapping, part) ==
    IF token = <<>> THEN <<>>
    ELSE LET up == StripUp(toLowerCase(token), 0)
             down == StripDown(up.cleanToken, up.octaveShift)
             cleanToken == down.cleanToken
             octaveShift == down.octaveShift
         IN IF cleanToken \notin DOMAIN solfegeVariations THEN <<>>
            ELSE LET normalizedSolfege == solfegeVariations[cleanToken]
                     noteName == keyMapping[normalizedSolfege]
                     midiNote == solfegeToMidiNote(normalizedSolfege, keyMapping,
                                                   part, octaveShift)
                 IN << [solfege |-> normalizedSolfege,
                        noteName |-> noteName,
                        midiNumber |-> midiNote,
                        part |-> part,
                        octave |-> OctaveOf(midiNote),
                        isRest |-> FALSE] >>

parseMeasure(measureStr, key, part) ==
    LET tokens == SplitTokens(measureStr, <<>>)
        keyMapping == IF key \in DOMAIN keyMaps THEN keyMaps[key] ELSE keyMaps[<<"C">>]
    IN Flat([i \in 1..Len(tokens) |-> parseNoteToken(tokens[i], keyMapping, part)])

\* parseMeasures pushing every measure, also one without notes
parseMeasures_KeepEmpty(line, key, part) ==
    LET NonBlank(m) == trim(m) # <<>>
        measureStrings == SelectSeq(split(line, "|"), NonBlank)
    IN [i \in 1..Len(measureStrings) |->
           parseMeasure(trim(measureStrings[i]), key, part)]

parseMeasures(line, key, part) ==
    LET NonBlank(m) == trim(m) # <<>>
        NonEmpty(notes) == Len(notes) > 0
        measureStrings == SelectSeq(split(line, "|"), NonBlank)
        parsed == [i \in 1..Len(measureStrings) |->
                      parseMeasure(trim(measureStrings[i]), key, part)]
    IN SelectSeq(parsed, NonEmpty)

\* the padding measure of alignMeasures
RestMeasure(partName) ==
    << [solfege |-> "rest", noteName |-> <<"R">>, midiNumber |-> null,
        part |-> partName, octave |-> 0, isRest |-> TRUE] >>

\* alignMeasures leaving the shorter parts as they are
alignMeasures_NoPadding(parts, measureCount) == parts

\* alignMeasures putting the padding measures before the part's own
alignMeasures_PadFront(parts, measureCount) ==
    [partName \in DOMAIN parts |->
        [i \in 1..measureCount |->
            IF i > measureCount - Len(parts[partName])
            THEN parts[partName][i - (measureCount - Len(parts[partName]))]
            ELSE RestMeasure(partName)]]

alignMeasures(parts, measureCount) ==
    [partName \in DOMAIN parts |->
        [i \in 1..measureCount |->
            IF i <= Len(parts[partName]) THEN parts[partName][i]
            ELSE RestMeasure(partName)]]

\* Math.max(0, ...)
RECURSIVE MathMax0(_)
MathMax0(s) ==
    IF s = <<>> THEN 0
    ELSE LET m == MathMax0(Tail(s)) IN IF Head(s) > m THEN Head(s) ELSE m

EmptyParts == [soprano |-> <<>>, alto |-> <<>>, tenor |-> <<>>, bass |-> <<>>]

\* Mode 1 of parse without its else-if branch: lines without indicator add nothing
RECURSIVE ExplicitLoop_NoContinuation(_, _, _, _)
ExplicitLoop_NoContinuation(linesWithIndicators, effectiveKey, parts, lastExplicitPart) ==
    IF linesWithIndicators = <<>> THEN parts
    ELSE LET line == Head(linesWithIndicators).line
             match == Head(linesWithIndicators).match
         IN IF match.matched
            THEN LET musicLine == trim(SubSeq(line, match.length + 1, Len(line)))
                     measures == parseMeasures(musicLine, effectiveKey, match.part)
                 IN ExplicitLoop_NoContinuation(Tail(linesWithIndicators), effectiveKey,
                                                [parts EXCEPT ![match.part] = @ \o measures],
                                                match.part)
            ELSE ExplicitLoop_NoContinuation(Tail(linesWithIndicators), effectiveKey,
                                             parts, lastExplicitPart)

\* Mode 1 of parse: the loop over linesWithIndicators
RECURSIVE ExplicitLoop(_, _, _, _)
ExplicitLoop(linesWithIndicators, effectiveKey, parts, lastExplicitPart) ==
    IF linesWithIndicators = <<>> THEN parts
    ELSE LET line == Head(linesWithIndicators).line
             match == Head(linesWithIndicators).match
         IN IF match.matched
            THEN LET musicLine == trim(SubSeq(line, match.length + 1, Len(line)))
                     measures == parseMeasures(musicLine, effectiveKey, match.part)
                 IN ExplicitLoop(Tail(linesWithIndicators), effectiveKey,
                                 [parts EXCEPT ![match.part] = @ \o measures],
                                 match.part)
            ELSE IF lastExplicitPart # ""
            THEN LET measures == parseMeasures(line, effectiveKey, lastExplicitPart)
                 IN ExplicitLoop(Tail(linesWithIndicators), effectiveKey,
                                 [parts EXCEPT ![lastExplicitPart] = @ \o measures],
                                 lastExplicitPart)
            ELSE ExplicitLoop(Tail(linesWithIndicators), effectiveKey, parts,
                              lastExplicitPart)

\* Mode 2 of parse without the increment of sequentialPartIndex
RECURSIVE PositionalLoop_NoIncrement(_, _, _, _)
PositionalLoop_NoIncrement(lines, effectiveKey, parts, sequentialPartIndex) ==
    IF lines = <<>> THEN parts
    ELSE LET partName == partOrder[(sequentialPartIndex % 4) + 1]
             measures == parseMeasures(trim(Head(lines)), effectiveKey, partName)
         IN PositionalLoop_NoIncrement(Tail(lines), effectiveKey,
                                       [parts EXCEPT ![partName] = @ \o measures],
                                       sequentialPartIndex)

\* Mode 2 of parse: the loop over lines
RECURSIVE PositionalLoop(_, _, _, _)
PositionalLoop(lines, effectiveKey, parts, sequentialPartIndex) ==
    IF lines = <<>> THEN parts
    ELSE LET partName == partOrder[(sequentialPartIndex % 4) + 1]
             measures == parseMeasures(trim(Head(lines)), effectiveKey, partName)
         IN PositionalLoop(Tail(lines), effectiveKey,
                           [parts EXCEPT ![partName] = @ \o measures],
                           sequentialPartIndex + 1)

\* the lines parse works on, from the text detectKey cleaned
parseLines(cleanedText) ==
    LET Kept(line) == /\ trim(line) # <<>>
                      /\ ~StartsWithAt(trim(line), 1, <<"/","/">>)
    IN SelectSeq(split(cleanedText, "\n"), Kept)

\* parse up to the call of alignMeasures: the local variable parts.
\* key: <<>> for the empty string (falsy); an omitted argument is <<"C">>
parseParts(solfegeText, key) ==
    LET Modes(effectiveKey, lines) ==
            LET linesWithIndicators ==
                    [i \in 1..Len(lines) |->
                        [line |-> trim(lines[i]),
                         match |-> detectPartIndicator(trim(lines[i]))]]
                hasAnyExplicitIndicator ==
                    \E i \in 1..Len(lines) : linesWithIndicators[i].match.matched
            IN IF hasAnyExplicitIndicator
               THEN ExplicitLoop(linesWithIndicators, effectiveKey, EmptyParts, "")
               ELSE PositionalLoop(lines, effectiveKey, EmptyParts, 0)
        Lines(detected) ==
            Modes(IF key # <<>> THEN key ELSE detected.key,
                  parseLines(detected.cleanedText))
    IN Lines(detectKey(solfegeText))

\* the value of lastExplicitPart after the loop of Mode 1
RECURSIVE ExplicitLast(_, _)
ExplicitLast(linesWithIndicators, lastExplicitPart) ==
    IF linesWithIndicators = <<>> THEN lastExplicitPart
    ELSE IF Head(linesWithIndicators).match.matched
    THEN ExplicitLast(Tail(linesWithIndicators), Head(linesWithIndicators).match.part)
    ELSE ExplicitLast(Tail(linesWithIndicators), lastExplicitPart)

\* the value of sequentialPartIndex after the loop of Mode 2
RECURSIVE PositionalIndex(_, _)
PositionalIndex(lines, sequentialPartIndex) ==
    IF lines = <<>> THEN sequentialPartIndex
    ELSE PositionalIndex(Tail(lines), sequentialPartIndex + 1)

\* parse running the loops of both modes
parseLocals_BothModes(solfegeText, key) ==
    LET lines == parseLines(detectKey(solfegeText).cleanedText)
        linesWithIndicators ==
            [i \in 1..Len(lines) |->
                [line |-> trim(lines[i]), match |-> detectPartIndicator(trim(lines[i]))]]
    IN [sequentialPartIndex |-> PositionalIndex(lines, 0),
        lastExplicitPart |-> ExplicitLast(linesWithIndicators, "")]

\* the locals sequentialPartIndex and lastExplicitPart of parse when it calls
\* alignMeasures
parseLocals(solfegeText, key) ==
    LET Modes(lines) ==
            LET linesWithIndicators ==
                    [i \in 1..Len(lines) |->
                        [line |-> trim(lines[i]),
                         match |-> detectPartIndicator(trim(lines[i]))]]
                hasAnyExplicitIndicator ==
                    \E i \in 1..Len(lines) : linesWithIndicators[i].match.matched
            IN IF hasAnyExplicitIndicator
               THEN [sequentialPartIndex |-> 0,
                     lastExplicitPart |-> ExplicitLast(linesWithIndicators, "")]
               ELSE [sequentialPartIndex |-> PositionalIndex(lines, 0),
                     lastExplicitPart |-> ""]
    IN Modes(parseLines(detectKey(solfegeText).cleanedText))

parse(solfegeText, key) ==
    LET parts == parseParts(solfegeText, key)
        measureCount == MathMax0([i \in 1..4 |-> Len(parts[partOrder[i]])])
    IN alignMeasures(parts, measureCount)

(***************************************************************************)
(* Inputs of the encoder.                                                  *)
(***************************************************************************)
Soprano == <<"S","o","p","r","a","n","o">>
Alto == <<"A","l","t","o">>

\* the caller names the first part Soprano and the others Alto
PartNameAt(i) == IF i = 1 THEN Soprano ELSE Alto

\* the calls made: tempo 0, 3 and 4 with no target, and the targets "All"
\* (at a negative tempo), "ALTO" (matches Alto whatever the case) and "bass"
\* (matches no part), both at tempo 120
Calls ==
    { [tempo |-> 0, target |-> <<>>],
      [tempo |-> 3, target |-> <<>>],
      [tempo |-> 4, target |-> <<>>],
      [tempo |-> 0 - 90, target |-> <<"A","l","l">>],
      [tempo |-> 120, target |-> <<"A","L","T","O">>],
      [tempo |-> 120, target |-> <<"b","a","s","s">>] }

CONSTRUCTOR == <<"c","o","n","s","t","r","u","c","t","o","r">>

\* notes of every duration, rests, a pitch outside the table, and a pitch
\* naming an inherited property; "dotted" stands for any other duration value
NoteSet ==
    { [pitch |-> REST, duration |-> "quarter"],
      [pitch |-> REST, duration |-> "sixteenth"],
      [pitch |-> <<"C","4">>, duration |-> "whole"],
      [pitch |-> <<"E","b","4">>, duration |-> "half"],
      [pitch |-> <<"F","#","3">>, duration |-> "quarter"],
      [pitch |-> <<"B","8">>, duration |-> "eighth"],
      [pitch |-> <<"C","0">>, duration |-> "sixteenth"],
      [pitch |-> <<"G","5">>, duration |-> "dotted"],
      [pitch |-> <<"H","9">>, duration |-> "half"],
      [pitch |-> CONSTRUCTOR, duration |-> "quarter"] }

\* the notes of the pieces given to generateMIDI
PieceNoteSet ==
    { [pitch |-> REST, duration |-> "quarter"],
      [pitch |-> <<"C","4">>, duration |-> "whole"],
      [pitch |-> CONSTRUCTOR, duration |-> "quarter"] }

TempoArgs == { <<>>, <<120>>, <<0>> }

VlqValues ==
    (0..MaxDense) \cup
    { 16383, 16384, 16385, 2097151, 2097152, 2097153, 268435454, 268435455 }

NotesOf(ms) == Flat([i \in 1..Len(ms) |-> ms[i].notes])

TotalNotes(ps) == SumSeq([i \in 1..Len(ps) |-> Len(NotesOf(ps[i].measures))])


\* the variables of the calls a specification does not make keep these values
VlqIdle == vlqValue = 0 /\ vlqOut = <<>>
MidiIdle == midiParts = <<>> /\ midiTempo = 120 /\ midiTarget = <<>> /\ midiOut = <<>>
TrackIdle == trackMeasures = <<>> /\ trackTempo = <<>> /\ trackOut = <<>>
ParseIdle ==
    /\ textArg = <<>> /\ keyArg = <<>> /\ partsLocal = <<>> /\ parseOut = <<>>
    /\ sequentialPartIndexLocal = 0 /\ lastExplicitPartLocal = ""
TokenIdle == tokenIn = <<>> /\ tokenKey = <<>> /\ tokenPart = "" /\ noteData = <<>>
OptimalIdle == noteNameArg = <<>> /\ rangeArg = <<>> /\ optimalOut = 0
IndicatorIdle == lineArg = <<>> /\ indicatorOut = <<>>
AlignIdle == alignArg = <<>> /\ alignOut = <<>>

(***************************************************************************)
(* SpecMidi: the caller builds a piece, then calls generateMIDI once.      *)
(***************************************************************************)
InitMidi ==
    /\ pc = "input"
    /\ MidiIdle
    /\ VlqIdle /\ TrackIdle /\ ParseIdle /\ TokenIdle /\ OptimalIdle /\ IndicatorIdle /\ AlignIdle

AddPart ==
    /\ pc = "input"
    /\ Len(midiParts) < MaxParts
    /\ midiParts' = Append(midiParts, [partName |-> PartNameAt(Len(midiParts) + 1), measures |-> <<>>])
    /\ UNCHANGED <<pc, midiTempo, midiTarget, midiOut, vlqVars, trackVars, parseVars, tokenVars, optimalVars,
                 indicatorVars, alignVars>>

AddMeasure ==
    /\ pc = "input"
    /\ Len(midiParts) > 0
    /\ Len(Last(midiParts).measures) < MaxMeasures
    /\ midiParts' = [midiParts EXCEPT ![Len(midiParts)].measures = Append(@, [notes |-> <<>>])]
    /\ UNCHANGED <<pc, midiTempo, midiTarget, midiOut, vlqVars, trackVars, parseVars, tokenVars, optimalVars,
                 indicatorVars, alignVars>>

AddNote(note) ==
    /\ pc = "input"
    /\ Len(midiParts) > 0
    /\ Len(Last(midiParts).measures) > 0
    /\ TotalNotes(midiParts) < MaxPieceNotes
    /\ midiParts' = [midiParts EXCEPT ![Len(midiParts)].measures[Len(Last(midiParts).measures)].notes =
                     Append(@, note)]
    /\ UNCHANGED <<pc, midiTempo, midiTarget, midiOut, vlqVars, trackVars, parseVars, tokenVars, optimalVars,
                 indicatorVars, alignVars>>

GenerateMIDI(call) ==
    /\ pc = "input"
    /\ midiTempo' = call.tempo
    /\ midiTarget' = call.target
    /\ midiOut' = generateMIDI(midiParts, call.tempo, call.target)
    /\ pc' = "done"
    /\ UNCHANGED <<midiParts, vlqVars, trackVars, parseVars, tokenVars, optimalVars,
                 indicatorVars, alignVars>>

NextMidi ==
    \/ AddPart
    \/ AddMeasure
    \/ \E note \in PieceNoteSet : AddNote(note)
    \/ \E call \in Calls : GenerateMIDI(call)

SpecMidi == InitMidi /\ [][NextMidi]_vars

(***************************************************************************)
(* SpecTrack: generateMIDI's call of createTrackChunk for one part.        *)
(***************************************************************************)
InitTrack ==
    /\ pc = "input"
    /\ TrackIdle
    /\ VlqIdle /\ MidiIdle /\ ParseIdle /\ TokenIdle /\ OptimalIdle /\ IndicatorIdle /\ AlignIdle

TrackAddMeasure ==
    /\ pc = "input"
    /\ Len(trackMeasures) < MaxMeasures
    /\ trackMeasures' = Append(trackMeasures, [notes |-> <<>>])
    /\ UNCHANGED <<pc, trackTempo, trackOut, vlqVars, midiVars, parseVars, tokenVars, optimalVars,
                 indicatorVars, alignVars>>

TrackAddNote(note) ==
    /\ pc = "input"
    /\ Len(trackMeasures) > 0
    /\ Len(NotesOf(trackMeasures)) < MaxTrackNotes
    /\ trackMeasures' = [trackMeasures EXCEPT ![Len(trackMeasures)].notes = Append(@, note)]
    /\ UNCHANGED <<pc, trackTempo, trackOut, vlqVars, midiVars, parseVars, tokenVars, optimalVars,
                 indicatorVars, alignVars>>

CreateTrackChunk(t) ==
    /\ pc = "input"
    /\ trackTempo' = t
    /\ trackOut' = createTrackChunk(trackMeasures, t)
    /\ pc' = "done"
    /\ UNCHANGED <<trackMeasures, vlqVars, midiVars, parseVars, tokenVars, optimalVars,
                 indicatorVars, alignVars>>

NextTrack ==
    \/ TrackAddMeasure
    \/ \E note \in NoteSet : TrackAddNote(note)
    \/ \E t \in TempoArgs : CreateTrackChunk(t)

SpecTrack == InitTrack /\ [][NextTrack]_vars

(***************************************************************************)
(* SpecVLQ: writeVariableLength applied to one vlqValue.                      *)
(***************************************************************************)
InitVLQ ==
    /\ pc = "input"
    /\ vlqValue \in VlqValues
    /\ vlqOut = <<>>
    /\ MidiIdle /\ TrackIdle /\ ParseIdle /\ TokenIdle /\ OptimalIdle /\ IndicatorIdle /\ AlignIdle

WriteVariableLength ==
    /\ pc = "input"
    /\ vlqOut' = writeVariableLength(vlqValue)
    /\ pc' = "done"
    /\ UNCHANGED <<vlqValue, midiVars, trackVars, parseVars, tokenVars, optimalVars,
                 indicatorVars, alignVars>>

NextVLQ == WriteVariableLength

SpecVLQ == InitVLQ /\ [][NextVLQ]_vars

(***************************************************************************)
(* Inputs of the parser.                                                   *)
(***************************************************************************)
\* the lines texts are made of:
\*   "S: d r | m f"
\*   "l t | d' r'"
\*   "a. m, x | | s"
\*   "t s l"
\*   "// d r"
\*   "Doh is G"
\*   "Key: Ab d"
\*   "B- d"
\*   "  "
\*   "bass: d | r | m"
LineSet ==
    { <<"S",":"," ","d"," ","r"," ","|"," ","m"," ","f">>,
      <<"l"," ","t"," ","|"," ","d","'"," ","r","'">>,
      <<"a","."," ","m",","," ","x"," ","|"," ","|"," ","s">>,
      <<"t"," ","s"," ","l">>,
      <<"/","/"," ","d"," ","r">>,
      <<"D","o","h"," ","i","s"," ","G">>,
      <<"K","e","y",":"," ","A","b"," ","d">>,
      <<"B","-"," ","d">>,
      <<" "," ">>,
      <<"b","a","s","s",":"," ","d"," ","|"," ","r"," ","|"," ","m">> }

\* lines.join("\n")
RECURSIVE JoinLines(_)
JoinLines(lines) ==
    IF lines = <<>> THEN <<>>
    ELSE IF Len(lines) = 1 THEN Head(lines)
    ELSE Head(lines) \o <<"\n">> \o JoinLines(Tail(lines))

\* texts given whole:
\*   "d r m\nm f s\ns l t\nd' t l"   four lines without indicator
\*   "Doh is B\nd r m"                a directive whose tonic has no key table
\*   "d r Key: F m"                   a directive inside a line
\*   "Doh is C\nS: d r m f"           a directive and an indicator line
\*   "d\nr\nm\nf\ns"                  five lines without indicator
\*   "d | x y | m"                    a measure without any known syllable
ExampleTexts ==
    { <<"d"," ","r"," ","m","\n","m"," ","f"," ","s","\n","s"," ","l"," ","t","\n",
        "d","'"," ","t"," ","l">>,
      <<"D","o","h"," ","i","s"," ","B","\n","d"," ","r"," ","m">>,
      <<"d"," ","r"," ","K","e","y",":"," ","F"," ","m">>,
      <<"D","o","h"," ","i","s"," ","C","\n","S",":"," ","d"," ","r"," ","m"," ","f">>,
      <<"d","\n","r","\n","m","\n","f","\n","s">>,
      <<"d"," ","|"," ","x"," ","y"," ","|"," ","m">> }

Texts ==
    { JoinLines(lines) : lines \in UNION { [1..n -> LineSet] : n \in 0..MaxLines } }
        \cup ExampleTexts

\* the key argument: omitted (the default "C"), the empty string, "Eb"
KeyArgs == { <<"C">>, <<>>, <<"E","b">> }

\* syllables with and without a table entry, in either case
Syllables ==
    DOMAIN solfegeVariations \cup
    { <<"D">>, <<"S","o","l">>, <<"d","o","h">>, <<"x">> }

MarkChars == { "'", ",", RightQuote, "_" }

MarkSeqs == UNION { [1..n -> MarkChars] : n \in 0..MaxMarks }

Tokens == { syllable \o marks : syllable \in Syllables, marks \in MarkSeqs }

(***************************************************************************)
(* SpecParse: parse applied to one text.                                   *)
(***************************************************************************)
InitParse ==
    /\ pc = "input"
    /\ textArg \in Texts
    /\ keyArg \in KeyArgs
    /\ partsLocal = <<>>
    /\ sequentialPartIndexLocal = 0
    /\ lastExplicitPartLocal = ""
    /\ parseOut = <<>>
    /\ VlqIdle /\ MidiIdle /\ TrackIdle /\ TokenIdle /\ OptimalIdle /\ IndicatorIdle /\ AlignIdle

Parse ==
    /\ pc = "input"
    /\ partsLocal' = parseParts(textArg, keyArg)
    /\ sequentialPartIndexLocal' = parseLocals(textArg, keyArg).sequentialPartIndex
    /\ lastExplicitPartLocal' = parseLocals(textArg, keyArg).lastExplicitPart
    /\ parseOut' = parse(textArg, keyArg)
    /\ pc' = "done"
    /\ UNCHANGED <<textArg, keyArg, vlqVars, midiVars, trackVars, tokenVars,
                 optimalVars, indicatorVars, alignVars>>

NextParse == Parse

SpecParse == InitParse /\ [][NextParse]_vars

(***************************************************************************)
(* SpecToken: parseNoteToken applied to one token, for a key and a part.   *)
(***************************************************************************)
InitToken ==
    /\ pc = "input"
    /\ tokenIn \in Tokens
    /\ tokenKey \in DOMAIN keyMaps
    /\ tokenPart \in DOMAIN vocalRanges
    /\ noteData = <<>>
    /\ VlqIdle /\ MidiIdle /\ TrackIdle /\ ParseIdle /\ OptimalIdle /\ IndicatorIdle /\ AlignIdle

ParseNoteToken ==
    /\ pc = "input"
    /\ noteData' = parseNoteToken(tokenIn, keyMaps[tokenKey], tokenPart)
    /\ pc' = "done"
    /\ UNCHANGED <<tokenIn, tokenKey, tokenPart, vlqVars, midiVars, trackVars, parseVars,
                 optimalVars, indicatorVars, alignVars>>

NextToken == ParseNoteToken

SpecToken == InitToken /\ [][NextToken]_vars

(***************************************************************************)
(* SpecOptimal: findOptimalMidi applied to one note name and one range.    *)
(***************************************************************************)
\* lowest note of the ranges tried: inside, at the top of, and above the
\* values 36..95 the octaves 2..6 give
RangeMins == { 36, 60, 95, 96 }

\* the four vocal ranges, and ranges of MaxWidth + 1 values or fewer
Ranges ==
    { vocalRanges[p] : p \in DOMAIN vocalRanges } \cup
    { [min |-> lo, max |-> lo + width, defaultOctave |-> d] :
          lo \in RangeMins, width \in 0..MaxWidth, d \in {3, 5} }

InitOptimal ==
    /\ pc = "input"
    /\ noteNameArg \in DOMAIN pitchClassToMidiOffset
    /\ rangeArg \in Ranges
    /\ optimalOut = 0
    /\ IndicatorIdle /\ AlignIdle
    /\ VlqIdle /\ MidiIdle /\ TrackIdle /\ ParseIdle /\ TokenIdle

FindOptimalMidi ==
    /\ pc = "input"
    /\ optimalOut' = findOptimalMidi(noteNameArg, rangeArg)
    /\ pc' = "done"
    /\ UNCHANGED <<noteNameArg, rangeArg, vlqVars, midiVars, trackVars, parseVars,
                   tokenVars, indicatorVars, alignVars>>

NextOptimal == FindOptimalMidi

SpecOptimal == InitOptimal /\ [][NextOptimal]_vars

(***************************************************************************)
(* SpecIndicator: detectPartIndicator applied to one line.                 *)
(***************************************************************************)
\* the voice-name prefixes in lower case, and some of them in other cases
LowerPrefixes ==
    { partPatterns[p][k] : p \in DOMAIN partPatterns, k \in 1..3 }

Prefixes ==
    LowerPrefixes \cup
    { <<"S">>, <<"T">>, <<"A">>, <<"B">>, <<"S","o","p">>, <<"A","l","t","o">>,
      <<"T","E","N","O","R">>, <<"B","a","S">> }

\* what follows the prefix: a separator of the notation, a space, a colon
\* after a period or a space, or nothing
Followers ==
    { <<":">>, <<".">>, <<"-">>, <<"=">>, <<" ">>, <<".",":">>, <<" ",":">>, <<>> }

\* the music after the prefix and what follows it
Musics == { <<>>, <<" ","d"," ","r">>, <<"d",":","r">> }

IndicatorLines ==
    { prefix \o follower \o music :
          prefix \in Prefixes, follower \in Followers, music \in Musics }

InitIndicator ==
    /\ pc = "input"
    /\ lineArg \in IndicatorLines
    /\ indicatorOut = <<>>
    /\ VlqIdle /\ MidiIdle /\ TrackIdle /\ ParseIdle /\ TokenIdle /\ OptimalIdle
    /\ AlignIdle

DetectPartIndicator ==
    /\ pc = "input"
    /\ indicatorOut' = detectPartIndicator(lineArg)
    /\ pc' = "done"
    /\ UNCHANGED <<lineArg, vlqVars, midiVars, trackVars, parseVars, tokenVars,
                   optimalVars, alignVars>>

NextIndicator == DetectPartIndicator

SpecIndicator == InitIndicator /\ [][NextIndicator]_vars

(***************************************************************************)
(* Reading a Standard MIDI File back, as a player does.                    *)
(***************************************************************************)
\* the value of a variable-length quantity: 7-bit groups, most significant first
RECURSIVE DecodeVLQFrom(_, _)
DecodeVLQFrom(bytes, acc) ==
    IF bytes = <<>> THEN acc
    ELSE DecodeVLQFrom(Tail(bytes), acc * 128 + (Head(bytes) % 128))

DecodeVLQ(bytes) == DecodeVLQFrom(bytes, 0)

\* number of bytes of the variable-length quantity that starts s (0 if it never ends)
RECURSIVE VlqLen(_)
VlqLen(s) ==
    IF s = <<>> THEN 0
    ELSE IF Head(s) < 128 THEN 1
    ELSE LET rest == VlqLen(Tail(s)) IN IF rest = 0 THEN 0 ELSE rest + 1

\* bytes i..j of s, cut at the end of s
Slice(s, i, j) == SubSeq(s, i, IF j > Len(s) THEN Len(s) ELSE j)

\* the value of a big-endian byte string
RECURSIVE BigEndianFrom(_, _)
BigEndianFrom(bytes, acc) ==
    IF bytes = <<>> THEN acc ELSE BigEndianFrom(Tail(bytes), acc * 256 + Head(bytes))

BigEndian(bytes) == BigEndianFrom(bytes, 0)

\* the events of a track: [delta, status, data]; data is <<type>> \o payload
\* for a meta event (status 255) and <<key, velocity>> for a channel event;
\* a stream that cannot be read ends in an event of status -1
RECURSIVE ParseEvents(_)
ParseEvents(s) ==
    IF s = <<>> THEN <<>>
    ELSE LET n == VlqLen(s)
         IN IF n = 0 \/ Len(s) < n + 3
            THEN << [delta |-> 0, status |-> 0 - 1, data |-> s] >>
            ELSE LET delta == DecodeVLQ(SubSeq(s, 1, n))
                     st == s[n + 1]
                 IN IF st = 255
                    THEN LET len == s[n + 3]
                         IN << [delta |-> delta, status |-> st,
                                data |-> <<s[n + 2]>> \o Slice(s, n + 4, n + 3 + len)] >>
                            \o ParseEvents(Slice(s, n + 4 + len, Len(s)))
                    ELSE << [delta |-> delta, status |-> st,
                             data |-> <<s[n + 2], s[n + 3]>>] >>
                         \o ParseEvents(Slice(s, n + 4, Len(s)))

\* the chunks after the 14-byte header: [magic, length, data]
RECURSIVE ParseChunks(_)
ParseChunks(s) ==
    IF s = <<>> THEN <<>>
    ELSE IF Len(s) < 8 THEN << [magic |-> s, length |-> 0 - 1, data |-> <<>>] >>
    ELSE LET length == BigEndian(SubSeq(s, 5, 8))
         IN << [magic |-> SubSeq(s, 1, 4), length |-> length,
                data |-> Slice(s, 9, 8 + length)] >>
            \o ParseChunks(Slice(s, 9 + length, Len(s)))

HeaderLen == 14
MThd == <<77, 84, 104, 100>>
MTrk == <<77, 84, 114, 107>>
EndOfTrack == <<0, 255, 47, 0>>

IsTempoEvent(e) == e.status = 255 /\ Len(e.data) = 4 /\ e.data[1] = 81
IsNoteOn(e) == e.status = 144
IsNoteOff(e) == e.status = 128

\* the parts generateMIDI is asked to encode
Processed ==
    LET Wanted(p) == toLowerCase(p.partName) = toLowerCase(midiTarget)
    IN IF midiTarget = <<>> \/ toLowerCase(midiTarget) = ALL
       THEN midiParts ELSE SelectSeq(midiParts, Wanted)

Chunks == ParseChunks(Slice(midiOut, HeaderLen + 1, Len(midiOut)))

\* a note that is neither a rest nor handled as one
Sounds(note) == note.pitch # REST /\ pitchToMidiNumber(note.pitch) # null

SoundingNotes(notes) == SelectSeq(notes, Sounds)

\* the tick values the specification gives
SpecTicks(duration) ==
    CASE duration = "whole" -> 384
      [] duration = "half" -> 192
      [] duration = "quarter" -> 96
      [] duration = "eighth" -> 48
      [] duration = "sixteenth" -> 24
      [] OTHER -> 96

\* the byte a key takes in the Uint8Array
KeyByte(note) ==
    IF note.pitch \in DOMAIN PITCH_TO_MIDI THEN PITCH_TO_MIDI[note.pitch] ELSE 0

\* the events of chunk i of the output of generateMIDI
ChunkEvents(i) == ParseEvents(Chunks[i].data)

NoteOnKeys(events) ==
    LET ons == SelectSeq(events, IsNoteOn) IN [k \in 1..Len(ons) |-> ons[k].data[1]]

SoundingKeys(part) ==
    LET snd == SoundingNotes(NotesOf(part.measures))
    IN [k \in 1..Len(snd) |-> KeyByte(snd[k])]

(***************************************************************************)
(* C2: for every v in [0, 0x0FFFFFFF], reading writeVariableLength(v) back *)
(* as a variable-length quantity (7-bit groups, most significant first)    *)
(* gives v; 0 is the single byte 0x00; every byte but the last has bit     *)
(* 0x80 set and the last has it clear; values >= 128 take >= 2 bytes.      *)
(***************************************************************************)
C2_VlqRoundTrip ==
    (pc = "done" /\ vlqValue \in 0..268435455) =>
        /\ Len(vlqOut) >= 1
        /\ DecodeVLQ(vlqOut) = vlqValue
        /\ (vlqValue = 0 => vlqOut = <<0>>)
        /\ \A i \in 1..(Len(vlqOut) - 1) : vlqOut[i] \in 128..255
        /\ Last(vlqOut) \in 0..127
        /\ (vlqValue >= 128 => Len(vlqOut) >= 2)

C2_Witness == pc = "done" /\ vlqValue = 16384 /\ vlqOut = <<129, 128, 0>>

(***************************************************************************)
(* C3: for a non-empty set of processed voices the output is the 14-byte   *)
(* header followed by exactly one MTrk chunk per processed voice, in voice *)
(* order; each chunk's 4-byte big-endian length is the number of bytes     *)
(* that follow it in the chunk, the chunk ends with 00 FF 2F 00, and the   *)
(* buffer is 14 + the sum over chunks of (8 + length) bytes long.          *)
(***************************************************************************)
C3_TrackChunks ==
    (pc = "done" /\ Len(Processed) > 0) =>
        /\ Len(midiOut) > HeaderLen
        /\ SubSeq(midiOut, 1, 4) = MThd
        /\ LET chunks == Chunks
               processed == Processed
           IN /\ Len(chunks) = Len(processed)
              /\ \A i \in 1..Len(chunks) :
                    LET c == chunks[i]
                    IN /\ c.magic = MTrk
                       /\ c.length = Len(c.data)
                       /\ c.length >= 4
                       /\ SubSeq(c.data, c.length - 3, c.length) = EndOfTrack
                       /\ i <= Len(processed)
                       /\ NoteOnKeys(ParseEvents(c.data)) = SoundingKeys(processed[i])
              /\ Len(midiOut) =
                    HeaderLen + SumSeq([i \in 1..Len(chunks) |-> 8 + chunks[i].length])

\* two chunks of different lengths, the second one with a note
C3_Witness ==
    /\ pc = "done"
    /\ Len(Processed) = 2
    /\ Len(Chunks) = 2
    /\ Chunks[1].length # Chunks[2].length
    /\ NoteOnKeys(ChunkEvents(2)) = <<60>>

(***************************************************************************)
(* C4: the output starts with MThd, length 6, format 1, a 2-byte count of  *)
(* tracks equal to the number of voices encoded, and division 96; for two  *)
(* voices the first 14 bytes are 4D 54 68 64 00 00 00 06 00 01 00 02 00 60.*)
(***************************************************************************)
C4_Header ==
    (pc = "done" /\ Len(Processed) > 0) =>
        /\ Len(midiOut) >= HeaderLen
        /\ SubSeq(midiOut, 1, HeaderLen) =
              MThd \o <<0, 0, 0, 6>> \o <<0, 1>>
                   \o << Len(Processed) \div 256, Len(Processed) % 256 >> \o <<0, 96>>
        /\ BigEndian(SubSeq(midiOut, 11, 12)) = Len(Chunks)
        /\ (Len(Processed) = 2 =>
              SubSeq(midiOut, 1, HeaderLen) =
                  <<77, 84, 104, 100, 0, 0, 0, 6, 0, 1, 0, 2, 0, 96>>)

C4_Witness ==
    /\ pc = "done"
    /\ Len(midiParts) = 2
    /\ midiTarget = <<>>
    /\ SubSeq(midiOut, 1, HeaderLen) = <<77, 84, 104, 100, 0, 0, 0, 6, 0, 1, 0, 2, 0, 96>>

\* exactly one tempo meta-event: the first event of the first chunk, at delta-time 0
TempoOnce ==
    LET chunks == Chunks
    IN /\ Len(chunks) >= 1
       /\ \A i \in 1..Len(chunks) :
             LET events == ParseEvents(chunks[i].data)
             IN /\ i = 1 => /\ Len(events) >= 1
                            /\ IsTempoEvent(events[1])
                            /\ events[1].delta = 0
                /\ \A k \in 1..Len(events) :
                      IsTempoEvent(events[k]) => (i = 1 /\ k = 1)

\* no tempo meta-event in any chunk
TempoNever ==
    LET chunks == Chunks
    IN \A i \in 1..Len(chunks) :
          LET events == ParseEvents(chunks[i].data)
          IN \A k \in 1..Len(events) : ~IsTempoEvent(events[k])

(***************************************************************************)
(* C5 as stated: for any piece of two or more encoded voices and any       *)
(* integer tempo, the output holds exactly one tempo meta-event FF 51 03,  *)
(* the first event (delta-time 0) of the first chunk.                      *)
(***************************************************************************)
C5_TempoOnceAnyTempo ==
    (pc = "done" /\ Len(Processed) >= 2) => TempoOnce

(***************************************************************************)
(* C5 amended: for any piece of two or more encoded voices and any integer *)
(* tempo other than 0, the output holds exactly one tempo meta-event, the  *)
(* first event (delta-time 0) of the first chunk; at tempo 0 it holds none.*)
(***************************************************************************)
C5_TempoOnceNonZero ==
    (pc = "done" /\ Len(Processed) >= 2) =>
        /\ (midiTempo # 0 => TempoOnce)
        /\ (midiTempo = 0 => TempoNever)

\* two encoded voices, both with notes, at a negative tempo
C5_Witness ==
    /\ pc = "done"
    /\ Len(Processed) = 2
    /\ midiTempo < 0
    /\ NoteOnKeys(ChunkEvents(1)) # <<>>
    /\ NoteOnKeys(ChunkEvents(2)) # <<>>
    /\ TempoOnce

\* the 24-bit value of the tempo event that opens the first chunk
TempoValue == BigEndian(SubSeq(ChunkEvents(1)[1].data, 2, 4))

(***************************************************************************)
(* C6 as stated: for every positive integer tempo the three bytes after    *)
(* FF 51 03 in the first track read back, as a big-endian 24-bit integer,  *)
(* as floor(60,000,000 / tempo).                                           *)
(***************************************************************************)
C6_TempoBytesPositive ==
    (pc = "done" /\ Len(Processed) > 0 /\ midiTempo > 0) =>
        /\ TempoOnce
        /\ TempoValue = 60000000 \div midiTempo

(***************************************************************************)
(* C6 amended: for every integer tempo >= 4 the three bytes after FF 51 03 *)
(* in the first track read back as floor(60,000,000 / tempo) (07 A1 20 for *)
(* tempo 120); for tempo 1..3 the quotient exceeds 24 bits and the bytes   *)
(* hold it modulo 2^24.                                                    *)
(***************************************************************************)
C6_TempoBytesFrom4 ==
    (pc = "done" /\ Len(Processed) > 0 /\ midiTempo > 0) =>
        /\ TempoOnce
        /\ LET first == ChunkEvents(1)[1]
               value == BigEndian(SubSeq(first.data, 2, 4))
           IN /\ value = TempoValue
              /\ (midiTempo >= 4 => value = 60000000 \div midiTempo)
              /\ (midiTempo < 4 => value = (60000000 \div midiTempo) % 16777216)
              /\ (midiTempo = 120 => SubSeq(first.data, 2, 4) = <<7, 161, 32>>)

C6_Witness ==
    /\ pc = "done"
    /\ Len(Processed) > 0
    /\ midiTempo = 4
    /\ SubSeq(midiOut, HeaderLen + 9, HeaderLen + 15) = <<0, 255, 81, 3, 228, 225, 192>>

\* the events createTrackChunk returned, after its 8-byte chunk header
TrackEvents == ParseEvents(Slice(trackOut, 9, Len(trackOut)))

TrackNotes == NotesOf(trackMeasures)

IsNoteEvent(e) == IsNoteOn(e) \/ IsNoteOff(e)

TrackNoteEvents == SelectSeq(TrackEvents, IsNoteEvent)

(***************************************************************************)
(* C7: for each sounding note (neither a rest nor handled as one), in      *)
(* measure order, createTrackChunk emits a Note-On (0x90, pitch number,    *)
(* 100) immediately followed by a Note-Off (0x80, same pitch number, 0)    *)
(* whose delta-time is the note's duration in ticks: whole 384, half 192,  *)
(* quarter 96, eighth 48, sixteenth 24, and 96 for any other value; the    *)
(* events come in the order of the notes.                                  *)
(***************************************************************************)
C7_NoteOnOff ==
    pc = "done" =>
        LET snd == SoundingNotes(TrackNotes)
            events == TrackEvents
            noteEvents == SelectSeq(events, IsNoteEvent)
        IN /\ noteEvents = TrackNoteEvents
           /\ Len(noteEvents) = 2 * Len(snd)
           /\ \A k \in 1..Len(snd) :
                 LET on == noteEvents[2 * k - 1]
                     off == noteEvents[2 * k]
                     key == pitchToMidiNumber(snd[k].pitch)
                 IN /\ on.status = 144 /\ on.data = <<key, 100>>
                    /\ off.status = 128 /\ off.data = <<key, 0>>
                    /\ off.delta = SpecTicks(snd[k].duration)
                    /\ (snd[k].pitch \in DOMAIN PITCH_TO_MIDI => key \in 12..119)
           /\ \A j \in 1..Len(events) :
                 IsNoteOn(events[j]) =>
                     /\ j < Len(events)
                     /\ IsNoteOff(events[j + 1])
                     /\ events[j + 1].data[1] = events[j].data[1]

\* a note of another duration value, a rest, then an eighth, over two measures
C7_Witness ==
    /\ pc = "done"
    /\ Len(trackMeasures) = 2
    /\ Len(TrackNotes) = 3
    /\ TrackNotes[1] = [pitch |-> <<"G","5">>, duration |-> "dotted"]
    /\ TrackNotes[2].pitch = REST
    /\ TrackNotes[3] = [pitch |-> <<"B","8">>, duration |-> "eighth"]
    /\ [k \in 1..4 |-> TrackNoteEvents[k].delta] = <<0, 96, 96, 48>>

\* indices of the sounding notes, ascending
SoundingIndices(notes) ==
    SelectSeq([j \in 1..Len(notes) |-> j], LAMBDA j : Sounds(notes[j]))

\* ticks of the notes strictly between the sounding note before index j (or the
\* start of the track) and index j
GapTicks(notes, j) ==
    LET before == { k \in 1..(j - 1) : Sounds(notes[k]) }
        prev == IF before = {} THEN 0 ELSE CHOOSE k \in before : \A m \in before : m <= k
    IN SumSeq([k \in 1..(j - 1 - prev) |-> SpecTicks(notes[prev + k].duration)])

(***************************************************************************)
(* C8: rests (and notes handled as rests) emit no event of their own; the  *)
(* delta-time of each Note-On is the sum of the tick durations of the      *)
(* rests between the previous sounding note (or the start of the track)    *)
(* and this note, 0 when there are none: the accumulator restarts at 0     *)
(* after each Note-On.                                                     *)
(***************************************************************************)
C8_RestDelta ==
    pc = "done" =>
        LET notes == TrackNotes
            events == TrackEvents
            idx == SoundingIndices(notes)
            ons == SelectSeq(events, IsNoteOn)
            tempoEvents == IF trackTempo # <<>> /\ trackTempo[1] # 0 THEN 1 ELSE 0
        IN /\ Len(ons) = Len(idx)
           /\ \A i \in 1..Len(idx) : ons[i].delta = GapTicks(notes, idx[i])
           /\ Len(events) = tempoEvents + 2 * Len(idx) + 1

\* a rest and a note handled as a rest before the only sounding note
C8_Witness ==
    /\ pc = "done"
    /\ Len(TrackNotes) = 3
    /\ TrackNotes[1] = [pitch |-> REST, duration |-> "sixteenth"]
    /\ TrackNotes[2] = [pitch |-> <<"H","9">>, duration |-> "half"]
    /\ Sounds(TrackNotes[3])
    /\ SelectSeq(TrackEvents, IsNoteOn)[1].delta = 216

\* a rest between two sounding notes
C8_WitnessBetween ==
    /\ pc = "done"
    /\ Len(TrackNotes) = 3
    /\ Sounds(TrackNotes[1])
    /\ TrackNotes[2].pitch = REST
    /\ Sounds(TrackNotes[3])

(***************************************************************************)
(* C9: if no voice of the piece contains a sounding note, generateMIDI     *)
(* returns an empty buffer.                                                *)
(***************************************************************************)
C9_EmptyWhenSilent ==
    (pc = "done" /\ \A i \in 1..Len(midiParts) :
                        SoundingNotes(NotesOf(midiParts[i].measures)) = <<>>)
        => midiOut = <<>>

VoiceNames == {"soprano", "alto", "tenor", "bass"}

\* the largest number of measures a voice holds in parts
LargestCount(parts) ==
    CHOOSE n \in { Len(parts[v]) : v \in VoiceNames } \cup {0} :
        \A v \in VoiceNames : Len(parts[v]) <= n

(***************************************************************************)
(* C1: after parse, soprano, alto, tenor and bass all have the same number *)
(* of measures, the largest number any voice had before alignment (0 when  *)
(* no voice received a measure).                                           *)
(***************************************************************************)
C1_AlignedCounts ==
    pc = "done" =>
        /\ DOMAIN parseOut = VoiceNames
        /\ \A v \in VoiceNames : Len(parseOut[v]) = LargestCount(partsLocal)

\* voices of 3, 2 and 0 measures before alignment
C1_Witness ==
    /\ pc = "done"
    /\ Len(partsLocal.bass) = 3
    /\ Len(partsLocal.alto) = 2
    /\ Len(partsLocal.soprano) = 0
    /\ \A v \in VoiceNames : Len(parseOut[v]) = 3

\* no voice received a measure
C1_WitnessEmpty ==
    /\ pc = "done"
    /\ textArg # <<>>
    /\ \A v \in VoiceNames : partsLocal[v] = <<>> /\ parseOut[v] = <<>>

HasOctaveMark(token) == \E i \in 1..Len(token) : token[i] \in MarkChars

(***************************************************************************)
(* C10: for every key table, every degree and every voice, a token with no *)
(* octave-shift mark resolves to a MIDI number inside the voice's          *)
(* inclusive range [min, max] (soprano 60..81, alto 55..76, tenor 48..69,  *)
(* bass 36..60); only tokens carrying octave marks resolve outside it.     *)
(***************************************************************************)
C10_InRange ==
    (pc = "done" /\ noteData # <<>>) =>
        LET midiNumber == noteData[1].midiNumber
            lo == CASE tokenPart = "soprano" -> 60 [] tokenPart = "alto" -> 55
                    [] tokenPart = "tenor" -> 48 [] tokenPart = "bass" -> 36
            hi == CASE tokenPart = "soprano" -> 81 [] tokenPart = "alto" -> 76
                    [] tokenPart = "tenor" -> 69 [] tokenPart = "bass" -> 60
        IN /\ (~HasOctaveMark(tokenIn) => (lo <= midiNumber /\ midiNumber <= hi))
           /\ ((midiNumber < lo \/ midiNumber > hi) => HasOctaveMark(tokenIn))

\* ti in E flat for the bass, unmarked, resolves to D2 = 38
C10_Witness ==
    /\ pc = "done"
    /\ tokenIn = <<"t","i">>
    /\ tokenKey = <<"E","b">>
    /\ tokenPart = "bass"
    /\ noteData # <<>>
    /\ noteData[1].midiNumber = 38

\* a marked token resolves above the soprano range
C10_WitnessOutside ==
    /\ pc = "done"
    /\ tokenIn = <<"d","'","'">>
    /\ tokenPart = "soprano"
    /\ tokenKey = <<"C">>
    /\ noteData # <<>>
    /\ noteData[1].midiNumber = 84

(***************************************************************************)
(* C11: findOptimalMidi(pitchClass, range) returns 12*(o+1)+offset for the *)
(* smallest octave o in 2..6 whose value lies in [range.min, range.max],   *)
(* and 12*(range.defaultOctave+1)+offset when no octave in 2..6 qualifies; *)
(* "la" in key C for the bass range [36, 60] resolves inside [36, 60].     *)
(***************************************************************************)
QualifyingOctaves(noteName, range) ==
    { o \in 2..6 : 12 * (o + 1) + pitchClassToMidiOffset[noteName] \in range.min..range.max }

C11_FirstOctave ==
    pc = "done" =>
        LET offset == pitchClassToMidiOffset[noteNameArg]
            octaves == QualifyingOctaves(noteNameArg, rangeArg)
        IN /\ octaves # {} =>
                 \E o \in octaves : /\ \A x \in octaves : o <= x
                                    /\ optimalOut = 12 * (o + 1) + offset
           /\ octaves = {} => optimalOut = 12 * (rangeArg.defaultOctave + 1) + offset
           /\ (noteNameArg = keyMaps[<<"C">>].la /\ rangeArg = vocalRanges.bass)
                 => optimalOut \in 36..60

\* no octave qualifies: the default octave is used, outside the range
C11_Witness ==
    /\ pc = "done"
    /\ QualifyingOctaves(noteNameArg, rangeArg) = {}
    /\ noteNameArg = <<"A">>
    /\ rangeArg = [min |-> 60, max |-> 63, defaultOctave |-> 3]
    /\ optimalOut = 57

\* two octaves qualify and the lower one is returned; la for the bass
C11_WitnessLowest ==
    /\ pc = "done"
    /\ noteNameArg = <<"A">>
    /\ rangeArg = vocalRanges.bass
    /\ QualifyingOctaves(noteNameArg, rangeArg) = {2, 3}
    /\ optimalOut = 45

\* the octave marks of the notation: up-marks and down-marks
IsUpMark(c) == c \in {"'", RightQuote}
IsDownMark(c) == c \in {",", "_"}

\* a token read as the specification reads it: every trailing octave mark is
\* taken off, right to left, whatever its kind: [syllable, ups, downs]
RECURSIVE ReadMarks(_, _, _)
ReadMarks(token, ups, downs) ==
    IF token # <<>> /\ IsUpMark(Last(token))
    THEN ReadMarks(SubSeq(token, 1, Len(token) - 1), ups + 1, downs)
    ELSE IF token # <<>> /\ IsDownMark(Last(token))
    THEN ReadMarks(SubSeq(token, 1, Len(token) - 1), ups, downs + 1)
    ELSE [syllable |-> token, ups |-> ups, downs |-> downs]

\* the pitch of a syllable before its octave marks are applied
BasePitch(syllable, key, part) ==
    findOptimalMidi(keyMaps[key][solfegeVariations[syllable]], vocalRanges[part])

(***************************************************************************)
(* C12: parseNoteToken strips every trailing octave marker of a token,     *)
(* right to left, until none remain, in any mixture and order of up-marks  *)
(* and down-marks; the resolved MIDI number is the base pitch plus         *)
(* 12 * (number of up-marks minus number of down-marks), unclamped.        *)
(***************************************************************************)
C12_MarksAnyOrder ==
    pc = "done" =>
        LET read == ReadMarks(toLowerCase(tokenIn), 0, 0)
        IN read.syllable \in DOMAIN solfegeVariations =>
              /\ noteData # <<>>
              /\ noteData[1].midiNumber =
                    BasePitch(read.syllable, tokenKey, tokenPart)
                        + 12 * (read.ups - read.downs)

\* the lines parse assigns to voices: non-blank, non-comment, trimmed
TextLines ==
    LET lines == parseLines(detectKey(textArg).cleanedText)
    IN [i \in 1..Len(lines) |-> trim(lines[i])]

\* the line is detected as carrying a voice indicator
HasIndicator(line) == detectPartIndicator(line).matched

\* the syllable tokens of a line, measure after measure
LineTokens(line) ==
    LET measureStrings == split(line, "|")
    IN Flat([i \in 1..Len(measureStrings) |-> SplitTokens(measureStrings[i], <<>>)])

\* the token normalizes to a known degree once its octave marks are read
Recognized(token) ==
    ReadMarks(toLowerCase(token), 0, 0).syllable \in DOMAIN solfegeVariations

\* all the entries of all the measures of the four voices
AllEntries(parts) ==
    Flat([i \in 1..4 |-> Flat(parts[partOrder[i]])])

IsRestEntry(entry) == entry.isRest

IsPitchedEntry(entry) == ~entry.isRest

(***************************************************************************)
(* C13: an unrecognized syllable token never makes parse fail and yields   *)
(* no pitched note; its slot in the measure is filled by a rest, so every  *)
(* measure keeps one entry per token.  Stated on the texts whose lines all *)
(* go to a voice by position: the voices hold one entry per token of the   *)
(* text, and one rest per unrecognized token.                              *)
(***************************************************************************)
C13_RestForUnknown ==
    pc = "done" =>
        LET lines == TextLines
            tokens == Flat([i \in 1..Len(lines) |-> LineTokens(lines[i])])
            entries == AllEntries(partsLocal)
        IN (\A i \in 1..Len(lines) : ~HasIndicator(lines[i])) =>
              /\ Len(entries) = Len(tokens)
              /\ Len(SelectSeq(entries, IsRestEntry))
                    = Len(tokens) - Len(SelectSeq(tokens, Recognized))

\* the text holds a substring matching the key-signature directive pattern
HasDirective(text) == KeyMatchIndex(text, 1) > 0

\* the tonic a directive names, written as the key tables write it
DirectiveTonic(text) ==
    LET tonic == KeyMatchAt(text, KeyMatchIndex(text, 1)).tonic
    IN <<UpperChar(tonic[1])>> \o toLowerCase(Tail(tonic))

\* the key the specification gives a text: the directive's tonic when it has a
\* key table, C major otherwise
DirectiveKey(text) ==
    IF HasDirective(text) /\ DirectiveTonic(text) \in DOMAIN keyMaps
    THEN DirectiveTonic(text) ELSE <<"C">>

(***************************************************************************)
(* C14: parse resolves pitches in the key named by a "Doh is <tonic>" or   *)
(* "Key: <tonic>" directive found anywhere in the text when that tonic has *)
(* a key table, and in C major when no directive is found or the tonic has *)
(* no table.  Stated for parse called with the text alone: every pitched   *)
(* entry carries the note name that key's table gives its degree.          *)
(***************************************************************************)
C14_DirectiveKey ==
    (pc = "done" /\ keyArg = <<"C">>) =>
        LET entries == AllEntries(partsLocal)
        IN \A i \in 1..Len(entries) :
              IsPitchedEntry(entries[i]) =>
                  entries[i].noteName = keyMaps[DirectiveKey(textArg)][entries[i].solfege]

\* the text without its first directive substring
WithoutDirective(text) ==
    LET at == KeyMatchIndex(text, 1)
        length == KeyMatchAt(text, at).length
    IN SubSeq(text, 1, at - 1) \o SubSeq(text, at + length, Len(text))

\* the key parse works in, for a text and a key argument
EffectiveKey(text, key) == IF key # <<>> THEN key ELSE detectKey(text).key

(***************************************************************************)
(* C15: whenever the text contains a substring matching the key-signature  *)
(* directive pattern, that substring is removed before lines are split and *)
(* voices are assigned, so the directive forms no line of its own, yields  *)
(* no notes and takes no voice slot, also when the named tonic has no key  *)
(* table.  Stated on the texts holding one directive: the voices receive   *)
(* what they receive from the text without the directive, in the same key. *)
(***************************************************************************)
C15_DirectiveRemoved ==
    (pc = "done" /\ HasDirective(textArg) /\ ~HasDirective(WithoutDirective(textArg))) =>
        partsLocal = parseParts(WithoutDirective(textArg), EffectiveKey(textArg, keyArg))

(***************************************************************************)
(* C16: within one parse the two voice-assignment modes are mutually       *)
(* exclusive: if at least one line is detected as carrying a voice         *)
(* indicator, no line is assigned by round-robin position (the positional  *)
(* counter is never advanced); positional assignment is used only when no  *)
(* line anywhere is detected as an indicator (no current voice is set).    *)
(***************************************************************************)
C16_ModesExclusive ==
    pc = "done" =>
        LET lines == TextLines
            explicit == \E i \in 1..Len(lines) : HasIndicator(lines[i])
        IN /\ ~(sequentialPartIndexLocal > 0 /\ lastExplicitPartLocal # "")
           /\ explicit => sequentialPartIndexLocal = 0
           /\ explicit =>
                 \A v \in VoiceNames :
                     partsLocal[v] # <<>> =>
                         \E i \in 1..Len(lines) :
                             /\ HasIndicator(lines[i])
                             /\ detectPartIndicator(lines[i]).part = v
           /\ sequentialPartIndexLocal > 0 => ~explicit
           /\ ~explicit => /\ sequentialPartIndexLocal = Len(lines)
                           /\ lastExplicitPartLocal = ""

\* an indicator line between two lines without prefix: the counter stays at 0
C16_Witness ==
    /\ pc = "done"
    /\ Len(TextLines) = 3
    /\ ~HasIndicator(TextLines[1])
    /\ HasIndicator(TextLines[2])
    /\ ~HasIndicator(TextLines[3])
    /\ sequentialPartIndexLocal = 0
    /\ lastExplicitPartLocal = "bass"

\* no indicator anywhere: three lines assigned by position
C16_WitnessPositional ==
    /\ pc = "done"
    /\ Len(TextLines) = 3
    /\ sequentialPartIndexLocal = 3
    /\ lastExplicitPartLocal = ""

\* the measures the lines numbered by indices give a voice, in source order
MeasuresOfLines(lines, indices, voice) ==
    Flat([j \in 1..Len(indices) |->
             parseMeasures(lines[indices[j]], EffectiveKey(textArg, keyArg), voice)])

\* the numbers of the lines, ascending
LineNumbers(lines) == [i \in 1..Len(lines) |-> i]

\* the degrees of the notes of a measure
Degrees(measure) == [j \in 1..Len(measure) |-> measure[j].solfege]

FourLines ==
    <<"d"," ","r"," ","m","\n","m"," ","f"," ","s","\n","s"," ","l"," ","t","\n",
      "d","'"," ","t"," ","l">>

(***************************************************************************)
(* C17: in positional mode the i-th non-blank, non-comment line (counting  *)
(* from 0) goes to voice [soprano, alto, tenor, bass][i mod 4]; for the    *)
(* text "d r m\nm f s\ns l t\nd' t l" line 1 goes to soprano, line 2 to    *)
(* alto, line 3 to tenor and line 4 to bass.                               *)
(***************************************************************************)
C17_RoundRobin ==
    (pc = "done" /\ \A i \in 1..Len(TextLines) : ~HasIndicator(TextLines[i])) =>
        /\ LET lines == TextLines
           IN \A k \in 0..3 :
                 partsLocal[partOrder[k + 1]] =
                     MeasuresOfLines(lines,
                                     SelectSeq(LineNumbers(lines),
                                               LAMBDA i : (i - 1) % 4 = k),
                                     partOrder[k + 1])
        /\ textArg = FourLines =>
              /\ \A v \in VoiceNames : Len(partsLocal[v]) = 1
              /\ Degrees(partsLocal.soprano[1]) = <<"do", "re", "mi">>
              /\ Degrees(partsLocal.alto[1]) = <<"mi", "fa", "sol">>
              /\ Degrees(partsLocal.tenor[1]) = <<"sol", "la", "ti">>
              /\ Degrees(partsLocal.bass[1]) = <<"do", "ti", "la">>

\* the four lines of the example, one per voice
C17_Witness ==
    /\ pc = "done"
    /\ textArg = FourLines
    /\ Len(TextLines) = 4
    /\ Degrees(partsLocal.bass[1]) = <<"do", "ti", "la">>

\* five lines: the fifth goes to soprano again
C17_WitnessFifth ==
    /\ pc = "done"
    /\ Len(TextLines) = 5
    /\ \A i \in 1..5 : ~HasIndicator(TextLines[i])
    /\ Len(partsLocal.soprano) = 2
    /\ Degrees(partsLocal.soprano[2]) = <<"sol">>

\* the number of the last indicator line among the lines 1..i, 0 if there is none
RECURSIVE LastIndicatorUpTo(_, _)
LastIndicatorUpTo(lines, i) ==
    IF i = 0 THEN 0
    ELSE IF HasIndicator(lines[i]) THEN i
    ELSE LastIndicatorUpTo(lines, i - 1)

\* the voice in force at line i in explicit mode, "" before the first indicator
CurrentVoice(lines, i) ==
    IF LastIndicatorUpTo(lines, i) = 0 THEN ""
    ELSE detectPartIndicator(lines[LastIndicatorUpTo(lines, i)]).part

\* the music of a line: the line without its voice prefix
LineMusic(line) ==
    IF HasIndicator(line)
    THEN trim(SubSeq(line, detectPartIndicator(line).length + 1, Len(line)))
    ELSE line

\* the measures of the lines that explicit mode gives a voice, in source order
ExplicitMeasures(lines, voice) ==
    LET mine == SelectSeq(LineNumbers(lines), LAMBDA i : CurrentVoice(lines, i) = voice)
    IN Flat([j \in 1..Len(mine) |->
                parseMeasures(LineMusic(lines[mine[j]]),
                              EffectiveKey(textArg, keyArg), voice)])

Continuation ==
    <<"S",":"," ","d"," ","r"," ","|"," ","m"," ","f","\n",
      "l"," ","t"," ","|"," ","d","'"," ","r","'">>

(***************************************************************************)
(* C18: in explicit mode each line without a voice prefix goes to the      *)
(* voice of the most recent preceding indicator line, and each voice's     *)
(* measure list is the concatenation, in source order, of the measures of  *)
(* the lines assigned to it; for "S: d r | m f\nl t | d' r'" both lines go *)
(* to soprano.                                                             *)
(***************************************************************************)
C18_Continuation ==
    (pc = "done" /\ \E i \in 1..Len(TextLines) : HasIndicator(TextLines[i])) =>
        /\ LET lines == TextLines
           IN \A v \in VoiceNames : partsLocal[v] = ExplicitMeasures(lines, v)
        /\ textArg = Continuation =>
              /\ [j \in 1..Len(partsLocal.soprano) |-> Degrees(partsLocal.soprano[j])]
                    = << <<"do","re">>, <<"mi","fa">>, <<"la","ti">>, <<"do","re">> >>
              /\ partsLocal.alto = <<>> /\ partsLocal.tenor = <<>> /\ partsLocal.bass = <<>>

\* the example: the line without prefix follows the soprano line
C18_Witness ==
    /\ pc = "done"
    /\ textArg = Continuation
    /\ ~HasIndicator(TextLines[2])
    /\ CurrentVoice(TextLines, 2) = "soprano"
    /\ Len(partsLocal.soprano) = 4

\* a continuation line between two indicator lines of different voices
C18_WitnessBetween ==
    /\ pc = "done"
    /\ Len(TextLines) = 3
    /\ CurrentVoice(TextLines, 1) = "soprano" /\ CurrentVoice(TextLines, 2) = "soprano"
    /\ ~HasIndicator(TextLines[2])
    /\ CurrentVoice(TextLines, 3) = "bass"
    /\ Len(partsLocal.soprano) = 4 /\ Len(partsLocal.bass) = 3

\* the number of measures a line holds, whatever the voice it is given
MeasuresInLine(line) ==
    Len(parseMeasures(LineMusic(line), EffectiveKey(textArg, keyArg), "soprano"))

(***************************************************************************)
(* C19: every non-blank, non-comment line of the input is classified as    *)
(* belonging to one of the four voices and its measures are added to that  *)
(* voice, in explicit mode also the lines without prefix that come before  *)
(* the first indicator line: the voices together hold the measures of all  *)
(* the lines.                                                              *)
(***************************************************************************)
C19_EveryLineAssigned ==
    pc = "done" =>
        LET lines == TextLines
        IN SumSeq([i \in 1..4 |-> Len(partsLocal[partOrder[i]])])
              = SumSeq([i \in 1..Len(lines) |-> MeasuresInLine(lines[i])])

\* the separators the specification lists after a voice-name prefix
SpecSeparators == { ":", ".", "-", "=" }

\* the voice whose prefix, followed by one of the listed separators, starts
\* the line; "" when the line starts with no such prefix
PrefixVoice(line) ==
    LET Starts(p) ==
            \E k \in 1..3 :
                /\ StartsWithAt(line, 1, partPatterns[p][k])
                /\ Len(line) > Len(partPatterns[p][k])
                /\ line[Len(partPatterns[p][k]) + 1] \in SpecSeparators
    IN IF \E p \in DOMAIN partPatterns : Starts(p)
       THEN CHOOSE p \in DOMAIN partPatterns : Starts(p)
       ELSE ""

(***************************************************************************)
(* C20: a line is recognized as a voice-indicator line whenever it begins, *)
(* case-insensitively, with soprano/sop/s, alto/alt/a, tenor/ten/t or      *)
(* bass/bas/b followed by one of the separators ':', '.', '-' or '=', and  *)
(* the indicated voice is the one of that prefix.                          *)
(***************************************************************************)
C20_IndicatorSeparators ==
    (pc = "done" /\ PrefixVoice(lineArg) # "") =>
        /\ indicatorOut.matched
        /\ indicatorOut.part = PrefixVoice(lineArg)

(***************************************************************************)
(* SpecAlign: alignMeasures applied, as at the end of parse, to the parts  *)
(* the assignment loops have filled.                                       *)
(***************************************************************************)
\* the text of the i-th measure of a voice: one syllable, or two when i is even
MeasureText(i) ==
    LET letters == <<"d", "r", "m", "f", "s", "l", "t">>
        first == letters[((i - 1) % 7) + 1]
        second == letters[(i % 7) + 1]
    IN IF i % 2 = 0 THEN <<first, " ", second>> ELSE <<first>>

\* the measures parse has pushed onto a voice that holds n measures
VoiceMeasures(part, n) ==
    [i \in 1..n |-> parseMeasure(MeasureText(i), <<"C">>, part)]

\* the local variable parts of parse, each voice with 0..MaxAlign measures
AlignArgs ==
    { [part \in DOMAIN EmptyParts |-> VoiceMeasures(part, count[part])] :
          count \in [DOMAIN EmptyParts -> 0..MaxAlign] }

InitAlign ==
    /\ pc = "input"
    /\ alignArg \in AlignArgs
    /\ alignOut = <<>>
    /\ VlqIdle /\ MidiIdle /\ TrackIdle /\ ParseIdle /\ TokenIdle /\ OptimalIdle
    /\ IndicatorIdle

AlignMeasures ==
    /\ pc = "input"
    /\ alignOut' = alignMeasures(alignArg,
                       MathMax0([i \in 1..4 |-> Len(alignArg[partOrder[i]])]))
    /\ pc' = "done"
    /\ UNCHANGED <<alignArg, vlqVars, midiVars, trackVars, parseVars, tokenVars,
                   optimalVars, indicatorVars>>

NextAlign == AlignMeasures

SpecAlign == InitAlign /\ [][NextAlign]_vars

(***************************************************************************)
(* SpecEndToEnd: a text is parsed, the aligned voices become the Piece and *)
(* the Piece is encoded.                                                   *)
(***************************************************************************)
\* `${note.octave}`: the decimal text of an octave number
OctaveText(octave) ==
    LET digits == <<"0", "1", "2", "3", "4", "5", "6", "7", "8", "9">>
    IN IF octave < 0 THEN <<"-", digits[(0 - octave) + 1]>>
       ELSE IF octave < 10 THEN <<digits[octave + 1]>>
       ELSE <<digits[(octave \div 10) + 1], digits[(octave % 10) + 1]>>

\* `${note.noteName}${note.octave}`: the pitch text of a resolved note
PitchText(note) == note.noteName \o OctaveText(note.octave)

\* the display name of a canonical voice
VoiceName(part) ==
    CASE part = "soprano" -> Soprano
      [] part = "alto" -> Alto
      [] part = "tenor" -> <<"T","e","n","o","r">>
      [] part = "bass" -> <<"B","a","s","s">>

\* the Note of the Piece for a note of the parser: a rest marker or a pitch,
\* with the quarter duration every note without length information has
PieceNote(note) ==
    [pitch |-> IF note.isRest THEN REST ELSE PitchText(note), duration |-> "quarter"]

\* the Piece of the aligned voices: one Voice per voice of the parser's
\* result, in the order soprano, alto, tenor, bass
ToPiece(aligned) ==
    [i \in 1..4 |->
        [partName |-> VoiceName(partOrder[i]),
         measures |->
             [m \in 1..Len(aligned[partOrder[i]]) |->
                 [notes |-> [n \in 1..Len(aligned[partOrder[i]][m]) |->
                                PieceNote(aligned[partOrder[i]][m][n])]]]]]

\* the texts of up to MaxLines - 1 lines, and the texts given whole
EndToEndTexts ==
    { JoinLines(lines) : lines \in UNION { [1..n -> LineSet] : n \in 1..(MaxLines - 1) } }
        \cup ExampleTexts

\* tempo 120 or 90; every voice, or the soprano alone
InitEndToEnd ==
    /\ pc = "input"
    /\ textArg \in EndToEndTexts
    /\ keyArg = <<"C">>
    /\ partsLocal = <<>> /\ parseOut = <<>>
    /\ sequentialPartIndexLocal = 0 /\ lastExplicitPartLocal = ""
    /\ midiParts = <<>> /\ midiOut = <<>>
    /\ midiTempo \in {120, 90}
    /\ midiTarget \in {<<>>, Soprano}
    /\ VlqIdle /\ TrackIdle /\ TokenIdle /\ OptimalIdle /\ IndicatorIdle /\ AlignIdle

ParseText ==
    /\ pc = "input"
    /\ partsLocal' = parseParts(textArg, keyArg)
    /\ sequentialPartIndexLocal' = parseLocals(textArg, keyArg).sequentialPartIndex
    /\ lastExplicitPartLocal' = parseLocals(textArg, keyArg).lastExplicitPart
    /\ parseOut' = parse(textArg, keyArg)
    /\ pc' = "parsed"
    /\ UNCHANGED <<textArg, keyArg, vlqVars, midiVars, trackVars, tokenVars,
                   optimalVars, indicatorVars, alignVars>>

EncodePiece ==
    /\ pc = "parsed"
    /\ midiParts' = ToPiece(parseOut)
    /\ midiOut' = generateMIDI(ToPiece(parseOut), midiTempo, midiTarget)
    /\ pc' = "done"
    /\ UNCHANGED <<midiTempo, midiTarget, vlqVars, trackVars, parseVars, tokenVars,
                   optimalVars, indicatorVars, alignVars>>

NextEndToEnd == ParseText \/ EncodePiece

SpecEndToEnd == InitEndToEnd /\ [][NextEndToEnd]_vars

\* the line starts with the single letter s or t, in either case, as a
\* token of its own: nothing, a blank or a listed separator comes after it
BareLetterFirst(line) ==
    /\ Len(line) >= 1
    /\ LowerChar(line[1]) \in {"s", "t"}
    /\ Len(line) >= 2 => (IsSpace(line[2]) \/ line[2] \in SpecSeparators)

\* the single letter is immediately followed by a listed separator
SeparatorFollows(line) == Len(line) >= 2 /\ line[2] \in SpecSeparators

\* the line, read as music, starts with the note of its first letter
FirstLetterIsNote(line) ==
    LET measures == parseMeasures(line, <<"C">>, "soprano")
    IN /\ measures # <<>>
       /\ measures[1][1].solfege = solfegeVariations[<<LowerChar(line[1])>>]

(***************************************************************************)
(* C21: a line whose first token is a bare single letter s or t is a voice *)
(* indicator only if the letter is immediately followed by a separator     *)
(* character; otherwise the line is no indicator line and the letter is    *)
(* parsed as the note sol or ti.                                           *)
(***************************************************************************)
C21_BareLetter ==
    (pc = "done" /\ BareLetterFirst(lineArg) /\ ~SeparatorFollows(lineArg)) =>
        /\ ~indicatorOut.matched
        /\ FirstLetterIsNote(lineArg)

\* the padding measure: exactly one note, a rest of quarter duration
IsQuarterRestMeasure(measure) ==
    /\ Len(measure) = 1
    /\ measure[1].isRest
    /\ measure[1].solfege = "rest"
    /\ "duration" \in DOMAIN measure[1]
    /\ measure[1].duration = "quarter"

\* the voice's own measures are a prefix of the aligned voice
KeptAsPrefix(original, aligned) ==
    /\ Len(aligned) >= Len(original)
    /\ SubSeq(aligned, 1, Len(original)) = original

\* the padding measure as alignMeasures builds it: exactly one note, a rest
\* that carries no duration
IsBareRestMeasure(measure) ==
    /\ Len(measure) = 1
    /\ measure[1].isRest
    /\ measure[1].solfege = "rest"
    /\ measure[1].midiNumber = null
    /\ "duration" \notin DOMAIN measure[1]

\* every voice keeps its measures as a prefix and comes out with the
\* measure count of the longest voice
OnlyAppends(parts, aligned) ==
    LET measureCount == MathMax0([i \in 1..4 |-> Len(parts[partOrder[i]])])
    IN \A part \in DOMAIN parts :
           /\ Len(aligned[part]) = measureCount
           /\ KeptAsPrefix(parts[part], aligned[part])

\* the places <<voice, index>> of the measures added to the shorter voices
AddedAt(parts) ==
    LET measureCount == MathMax0([i \in 1..4 |-> Len(parts[partOrder[i]])])
    IN { place \in (DOMAIN parts) \X (1..measureCount) :
             place[2] > Len(parts[place[1]]) }

CleanToken(token) == StripDown(StripUp(toLowerCase(token), 0).cleanToken, 0).cleanToken

\* the degree the claim gives for a spelling; "" for any other text
DegreeOf(spelling) ==
    CASE spelling \in { <<"d">>, <<"d","o">> } -> "do"
      [] spelling \in { <<"r">>, <<"r","e">> } -> "re"
      [] spelling \in { <<"m">>, <<"m","i">> } -> "mi"
      [] spelling \in { <<"f">>, <<"f","a">> } -> "fa"
      [] spelling \in { <<"s">>, <<"s","o","l">>, <<"s","o">> } -> "sol"
      [] spelling \in { <<"l">>, <<"l","a">> } -> "la"
      [] spelling \in { <<"t">>, <<"t","i">>, <<"s","i">> } -> "ti"
      [] OTHER -> ""

(***************************************************************************)
(* C23: after its octave marks are stripped and it is lower-cased, a token *)
(* yields a note exactly when it is one of d, r, m, f, s, l, t, do, re,    *)
(* mi, fa, sol, so, la, ti, si; the degree is do/re/mi/fa/sol/la/ti for    *)
(* the single letters, sol for "so" and ti for "si", and the note's pitch  *)
(* class is the active key table's entry for that degree.                  *)
(***************************************************************************)
C23_Spellings ==
    pc = "done" /\ tokenIn # <<>> =>
        LET degree == DegreeOf(CleanToken(tokenIn))
        IN /\ (noteData # <<>>) <=> (degree # "")
           /\ noteData # <<>> =>
                  /\ noteData[1].solfege = degree
                  /\ noteData[1].noteName = keyMaps[tokenKey][degree]
                  /\ ~noteData[1].isRest

\* "so" with an up-mark has given sol, F in the key of Bb
C23_Witness ==
    /\ pc = "done"
    /\ tokenIn = <<"s","o","'">> /\ tokenKey = <<"B","b">>
    /\ noteData # <<>> /\ noteData[1].solfege = "sol" /\ noteData[1].noteName = <<"F">>

\* "si" has given ti, and "doh" has given no note
C23_WitnessSi ==
    /\ pc = "done" /\ tokenIn = <<"s","i">> /\ tokenKey = <<"G">>
    /\ noteData # <<>> /\ noteData[1].solfege = "ti" /\ noteData[1].noteName = <<"F","#">>

C23_WitnessNone ==
    pc = "done" /\ tokenIn = <<"d","o","h">> /\ noteData = <<>>

\* the text "Doh is C\nS: d r m f"
ScenarioText ==
    <<"D","o","h"," ","i","s"," ","C","\n","S",":"," ","d"," ","r"," ","m"," ","f">>

\* the voice of the scenario: Soprano, one measure, the quarter notes C4 D4 E4 F4
ScenarioVoice ==
    [partName |-> Soprano,
     measures |-> << [notes |-> << [pitch |-> <<"C","4">>, duration |-> "quarter"],
                                   [pitch |-> <<"D","4">>, duration |-> "quarter"],
                                   [pitch |-> <<"E","4">>, duration |-> "quarter"],
                                   [pitch |-> <<"F","4">>, duration |-> "quarter"] >>] >>]

\* the file of the scenario: the header of one track, and a track chunk of 43
\* event bytes: tempo 500000 (07 A1 20), four Note-On/Note-Off pairs for
\* 60, 62, 64, 65 with the delta-times 0 and 96, end-of-track
ScenarioFile ==
    <<77, 84, 104, 100, 0, 0, 0, 6, 0, 1, 0, 1, 0, 96>>
    \o <<77, 84, 114, 107, 0, 0, 0, 43>>
    \o <<0, 255, 81, 3, 7, 161, 32>>
    \o <<0, 144, 60, 100, 96, 128, 60, 0>>
    \o <<0, 144, 62, 100, 96, 128, 62, 0>>
    \o <<0, 144, 64, 100, 96, 128, 64, 0>>
    \o <<0, 144, 65, 100, 96, 128, 65, 0>>
    \o <<0, 255, 47, 0>>

(***************************************************************************)
(* C24: end to end, the input "Doh is C\nS: d r m f" with tempo 120 gives  *)
(* a Piece with the single voice Soprano holding one measure of four       *)
(* quarter notes with MIDI numbers 60, 62, 64, 65, and its encoding is a   *)
(* 1-track file whose track chunk contains, in order, the tempo meta-event *)
(* with value 500000, four Note-On/Note-Off pairs with the delta-times     *)
(* 0,96,0,96,0,96,0,96, and the end-of-track meta-event.                   *)
(***************************************************************************)
C24_EndToEnd ==
    (pc = "done" /\ textArg = ScenarioText /\ midiTempo = 120 /\ midiTarget = <<>>) =>
        /\ midiParts = <<ScenarioVoice>>
        /\ midiOut = ScenarioFile

\* the ticks of the notes and rests up to and including the last sounding note
TicksToLastSounding(notes) ==
    LET idx == SoundingIndices(notes)
        last == IF idx = <<>> THEN 0 ELSE idx[Len(idx)]
    IN SumSeq([k \in 1..last |-> SpecTicks(notes[k].duration)])

\* the ticks of all the notes and rests
TotalTicks(notes) == SumSeq([k \in 1..Len(notes) |-> SpecTicks(notes[k].duration)])

\* the length of the track in ticks: the sum of the delta-times of its events
DeltaSum(events) == SumSeq([j \in 1..Len(events) |-> events[j].delta])

(***************************************************************************)
(* C25: in every track chunk the sum of all event delta-times equals the   *)
(* total tick duration of the voice's notes and rests up to and including  *)
(* its last sounding note; rests after the last sounding note add no time  *)
(* (end-of-track always has delta 0), so two voices of equal total         *)
(* duration can produce tracks of different length in ticks.               *)
(***************************************************************************)
C25_TrackLength ==
    pc = "done" =>
        LET Holds(notes, events) ==
                /\ events # <<>>
                /\ events[Len(events)] = [delta |-> 0, status |-> 255, data |-> <<47>>]
                /\ DeltaSum(events) = TicksToLastSounding(notes)
        IN Holds(TrackNotes, TrackEvents)

\* a sounding whole note followed by a quarter rest: 480 ticks of music, a
\* track of 384 ticks
C25_Witness ==
    /\ pc = "done"
    /\ Len(TrackNotes) = 2
    /\ TrackNotes[1] = [pitch |-> <<"C","4">>, duration |-> "whole"]
    /\ TrackNotes[2] = [pitch |-> REST, duration |-> "quarter"]
    /\ TotalTicks(TrackNotes) = 480
    /\ DeltaSum(TrackEvents) = 384

\* the same two notes in the other order: the same 480 ticks of music, a
\* track of 480 ticks
C25_WitnessOtherOrder ==
    /\ pc = "done"
    /\ Len(TrackNotes) = 2
    /\ TrackNotes[1] = [pitch |-> REST, duration |-> "quarter"]
    /\ TrackNotes[2] = [pitch |-> <<"C","4">>, duration |-> "whole"]
    /\ TotalTicks(TrackNotes) = 480
    /\ DeltaSum(TrackEvents) = 480

\* the pitch is a name of the encoder's table: a natural, sharp or flat name
\* in the octaves 0..8
InTable(note) == note.pitch \in DOMAIN PITCH_TO_MIDI

\* ticks of the notes strictly between the note of the table before index j
\* (or the start of the track) and index j
GapTicksInTable(notes, j) ==
    LET before == { k \in 1..(j - 1) : InTable(notes[k]) }
        prev == IF before = {} THEN 0 ELSE CHOOSE k \in before : \A m \in before : m <= k
    IN SumSeq([k \in 1..(j - 1 - prev) |-> SpecTicks(notes[prev + k].duration)])

\* the events of the track as the bytes of the file hold them
TrackByteEvents == ParseEvents(Uint8Array(Slice(trackOut, 9, Len(trackOut))))

(***************************************************************************)
(* C26: a note whose pitch string is not in the encoder's table (anything  *)
(* other than a natural, sharp or flat name in octaves 0..8) is handled as *)
(* a rest: it emits no event and its tick duration is added to the pending *)
(* delta of the next Note-On; consequently every pitch byte written after  *)
(* a 0x90 or 0x80 status lies in 12..119 and every velocity byte is 100 or *)
(* 0.                                                                      *)
(***************************************************************************)
C26_UnknownPitchIsRest ==
    pc = "done" =>
        LET Holds(notes, events) ==
                LET idx == SelectSeq([j \in 1..Len(notes) |-> j],
                                     LAMBDA j : InTable(notes[j]))
                    ons == SelectSeq(events, IsNoteOn)
                    offs == SelectSeq(events, IsNoteOff)
                IN /\ Len(ons) = Len(idx)
                   /\ Len(offs) = Len(idx)
                   /\ \A i \in 1..Len(idx) :
                          Len(ons) >= i => ons[i].delta = GapTicksInTable(notes, idx[i])
                   /\ \A i \in 1..Len(ons) :
                          ons[i].data[1] \in 12..119 /\ ons[i].data[2] = 100
                   /\ \A i \in 1..Len(offs) :
                          offs[i].data[1] \in 12..119 /\ offs[i].data[2] = 0
        IN Holds(TrackNotes, TrackByteEvents)

\* the entry of the encoder's table is a pitch class of the parser followed
\* by an octave 0..8, and its number is 12 * (octave + 1) + pitchClassOffset
EntryAgrees(pitch) ==
    \E noteName \in DOMAIN pitchClassToMidiOffset, octave \in 0..8 :
        /\ pitch = noteName \o OctaveText(octave)
        /\ PITCH_TO_MIDI[pitch] = 12 * (octave + 1) + pitchClassToMidiOffset[noteName]

\* every entry of the encoder's table agrees with the parser's numbering
TableAgrees == \A pitch \in DOMAIN PITCH_TO_MIDI : EntryAgrees(pitch)

(***************************************************************************)
(* C27: parser and encoder number pitches identically: every entry of the  *)
(* encoder's pitch table equals 12*(octave+1) + pitchClassOffset with      *)
(* middle C4 = 60, and for every note the parser resolves with midiNumber  *)
(* in 12..119 the string noteName followed by its octave field             *)
(* (floor(midiNumber/12) - 1) looks up in the encoder's table to that same *)
(* midiNumber.                                                             *)
(***************************************************************************)
C27_SameNumbering ==
    /\ TableAgrees
    /\ PITCH_TO_MIDI[<<"C","4">>] = 60
    /\ (pc = "done" /\ noteData # <<>> /\ noteData[1].midiNumber \in 12..119) =>
           /\ noteData[1].octave = (noteData[1].midiNumber \div 12) - 1
           /\ PitchText(noteData[1]) \in DOMAIN PITCH_TO_MIDI
           /\ pitchToMidiNumber(PitchText(noteData[1])) = noteData[1].midiNumber

\* fa in the key of Eb for the alto is Ab3, number 56 in both
C27_Witness ==
    /\ pc = "done" /\ tokenIn = <<"f">> /\ tokenKey = <<"E","b">> /\ tokenPart = "alto"
    /\ noteData # <<>>
    /\ PitchText(noteData[1]) = <<"A","b","3">>
    /\ noteData[1].midiNumber = 56 /\ PITCH_TO_MIDI[<<"A","b","3">>] = 56

\* a token with two down-marks for the bass resolves to 12, the lowest
\* number of the table
C27_WitnessLow ==
    /\ pc = "done" /\ tokenPart = "bass" /\ noteData # <<>>
    /\ noteData[1].midiNumber = 12 /\ PitchText(noteData[1]) = <<"C","0">>

\* the seven degrees, and the semitones of a major scale above its tonic
ScaleDegrees == <<"do", "re", "mi", "fa", "sol", "la", "ti">>
MajorSteps == <<0, 2, 4, 5, 7, 9, 11>>

\* the table of a key defines exactly the seven degrees, with names that
\* have an offset, do being the tonic and the others a major scale above it
IsMajorTable(key) ==
    /\ DOMAIN keyMaps[key] = { ScaleDegrees[i] : i \in 1..7 }
    /\ \A i \in 1..7 : keyMaps[key][ScaleDegrees[i]] \in DOMAIN pitchClassToMidiOffset
    /\ keyMaps[key].do = key
    /\ \A i \in 1..7 :
           pitchClassToMidiOffset[keyMaps[key][ScaleDegrees[i]]]
               = (pitchClassToMidiOffset[key] + MajorSteps[i]) % 12

\* all the key tables are major scales on their tonic
TablesMajor ==
    /\ Cardinality(DOMAIN keyMaps) = 7
    /\ \A key \in DOMAIN keyMaps : IsMajorTable(key)

(***************************************************************************)
(* C28: each of the seven key tables defines all seven degrees, maps do to *)
(* the tonic that names the table, spells a major scale (the degrees       *)
(* do..ti lie 0, 2, 4, 5, 7, 9, 11 semitones above the tonic, modulo 12),  *)
(* and uses only pitch-class names that have a semitone offset in          *)
(* findOptimalMidi, so every resolved MIDI number is a defined integer.    *)
(***************************************************************************)
C28_MajorTables ==
    /\ TablesMajor
    /\ (pc = "done" /\ noteData # <<>>) =>
           /\ noteData[1].noteName \in DOMAIN pitchClassToMidiOffset
           /\ noteData[1].midiNumber \in Int
           /\ noteData[1].midiNumber % 12 = pitchClassToMidiOffset[noteData[1].noteName]

\* fa in the key of F for the soprano is Bb, resolved to 70
C28_Witness ==
    /\ pc = "done" /\ tokenIn = <<"f">> /\ tokenKey = <<"F">> /\ tokenPart = "soprano"
    /\ noteData # <<>>
    /\ noteData[1].noteName = <<"B","b">>
    /\ noteData[1].midiNumber = 70

\* the token is one parseNoteToken gives a note for
IsSyllable(token) == token # <<>> /\ DegreeOf(CleanToken(token)) # ""

\* the degrees of the known syllables of a bar-delimited segment
SegmentDegrees(segment) ==
    LET syllables == SelectSeq(SplitTokens(segment, <<>>), IsSyllable)
    IN [j \in 1..Len(syllables) |-> DegreeOf(CleanToken(syllables[j]))]

\* the segments of a line that hold a known syllable, as their degrees
KeptSegments(music) ==
    LET segments == split(music, "|")
    IN SelectSeq([k \in 1..Len(segments) |-> SegmentDegrees(segments[k])],
                 LAMBDA degrees : degrees # <<>>)

\* the voice line i goes to: by the indicator in force in explicit mode ("" when
\* there is none yet), by position otherwise
VoiceOfLine(lines, i) ==
    IF \E k \in 1..Len(lines) : HasIndicator(lines[k])
    THEN CurrentVoice(lines, i)
    ELSE partOrder[((i - 1) % 4) + 1]

\* the kept segments of the lines of a voice, in source order
VoiceSegments(lines, voice) ==
    LET mine == SelectSeq(LineNumbers(lines), LAMBDA i : VoiceOfLine(lines, i) = voice)
    IN Flat([j \in 1..Len(mine) |-> KeptSegments(LineMusic(lines[mine[j]]))])

\* the text "d | x y | m"
SegmentText == <<"d"," ","|"," ","x"," ","y"," ","|"," ","m">>

(***************************************************************************)
(* C29: every measure in the output of parse contains at least one entry:  *)
(* a bar-delimited segment in which no token is a recognized syllable      *)
(* contributes no measure at all to its voice, so the k-th output measure  *)
(* of a voice is the k-th segment that had a recognized syllable, not the  *)
(* k-th segment of the source.                                             *)
(***************************************************************************)
C29_NoEmptyMeasure ==
    pc = "done" =>
        LET Holds(lines) ==
                \A v \in VoiceNames :
                    /\ \A k \in 1..Len(parseOut[v]) : Len(parseOut[v][k]) >= 1
                    /\ [k \in 1..Len(partsLocal[v]) |-> Degrees(partsLocal[v][k])]
                           = VoiceSegments(lines, v)
                    /\ SubSeq(parseOut[v], 1, Len(partsLocal[v])) = partsLocal[v]
        IN Holds(TextLines)

\* "d | x y | m": the second measure of the soprano is the third segment
C29_Witness ==
    /\ pc = "done"
    /\ textArg = SegmentText
    /\ Len(split(TextLines[1], "|")) = 3
    /\ Len(parseOut.soprano) = 2
    /\ Degrees(parseOut.soprano[2]) = <<"mi">>

\* the lowest number of each built-in voice, as the claim gives it
VoiceMin(voice) ==
    CASE voice = "soprano" -> 60 [] voice = "alto" -> 55
      [] voice = "tenor" -> 48 [] voice = "bass" -> 36

\* the highest number of each built-in voice
VoiceMax(voice) ==
    CASE voice = "soprano" -> 81 [] voice = "alto" -> 76
      [] voice = "tenor" -> 69 [] voice = "bass" -> 60

\* the lowest number of the pitch class at or above the voice's minimum
LowestInRange(noteName, voice) ==
    VoiceMin(voice) + ((pitchClassToMidiOffset[noteName] + 120 - VoiceMin(voice)) % 12)

\* up-marks minus down-marks, as the two loops of parseNoteToken count them
NetShift(token) ==
    LET up == StripUp(toLowerCase(token), 0)
    IN StripDown(up.cleanToken, up.octaveShift).octaveShift

HasUpMark(token) == \E i \in 1..Len(token) : token[i] \in {"'", RightQuote}

\* the number a token resolves to, from the token, the key and the voice alone
PitchOf(token, key, voice) ==
    LowestInRange(keyMaps[key][DegreeOf(CleanToken(token))], voice) + 12 * NetShift(token)

\* for every key, spelling and voice: the token without marks resolves into
\* [min, min + 11], and with marks a number from min + 12 up to max comes
\* only from a token carrying an up-mark
UnmarkedLowest ==
    \A key \in DOMAIN keyMaps, spelling \in DOMAIN solfegeVariations, voice \in VoiceNames :
        /\ LET note == parseNoteToken(spelling, keyMaps[key], voice)
           IN /\ note # <<>>
              /\ note[1].midiNumber \in VoiceMin(voice)..(VoiceMin(voice) + 11)
              /\ note[1].midiNumber = PitchOf(spelling, key, voice)
        /\ \A marks \in MarkSeqs :
              LET note == parseNoteToken(spelling \o marks, keyMaps[key], voice)
              IN (note # <<>> /\ note[1].midiNumber \in (VoiceMin(voice) + 12)..VoiceMax(voice))
                     => HasUpMark(spelling \o marks)

\* the known syllables of the lines of a voice, in source order
VoiceSyllables(lines, voice) ==
    LET mine == SelectSeq(LineNumbers(lines), LAMBDA i : VoiceOfLine(lines, i) = voice)
        SyllablesOf(music) ==
            LET segments == split(music, "|")
            IN Flat([k \in 1..Len(segments) |->
                        SelectSeq(SplitTokens(segments[k], <<>>), IsSyllable)])
    IN Flat([j \in 1..Len(mine) |-> SyllablesOf(LineMusic(lines[mine[j]]))])

(***************************************************************************)
(* C30: a token's resolved pitch depends only on the token text, the key   *)
(* and the voice, never on neighbouring notes, and a token without octave  *)
(* marks always resolves into the lowest in-range octave: for each         *)
(* built-in voice its MIDI number lies in [min, min+11] (soprano 60..71,   *)
(* alto 55..66, tenor 48..59, bass 36..47), so pitches from min+12 up to   *)
(* max are produced only by tokens carrying up-marks.                      *)
(***************************************************************************)
C30_PitchByTokenAlone ==
    /\ UnmarkedLowest
    /\ pc = "done" =>
           LET Holds(lines, key) ==
                   \A v \in VoiceNames :
                       LET syllables == VoiceSyllables(lines, v)
                           entries == Flat(partsLocal[v])
                       IN /\ Len(entries) = Len(syllables)
                          /\ \A j \in 1..Len(entries) :
                                 /\ entries[j].midiNumber = PitchOf(syllables[j], key, v)
                                 /\ ~HasOctaveMark(syllables[j]) =>
                                        entries[j].midiNumber
                                            \in VoiceMin(v)..(VoiceMin(v) + 11)
           IN Holds(TextLines,
                    IF EffectiveKey(textArg, keyArg) \in DOMAIN keyMaps
                    THEN EffectiveKey(textArg, keyArg) ELSE <<"C">>)

\* "S: d r | m f\nl t | d' r'" in C: ti resolves to 71 after fa = 65, and the
\* marked do after it to 72, each as it does alone
C30_Witness ==
    /\ pc = "done"
    /\ textArg = Continuation /\ keyArg = <<"C">>
    /\ [j \in 1..8 |-> Flat(partsLocal.soprano)[j].midiNumber]
           = <<60, 62, 64, 65, 69, 71, 72, 74>>

\* "t s l" given to the alto by position, in Eb: ti D4 = 62, sol Bb3 = 58,
\* la C4 = 60
C30_WitnessAlto ==
    /\ pc = "done"
    /\ keyArg = <<"E","b">>
    /\ Len(TextLines) = 2 /\ TextLines[2] = <<"t"," ","s"," ","l">>
    /\ ~HasIndicator(TextLines[1])
    /\ [j \in 1..3 |-> partsLocal.alto[1][j].midiNumber] = <<62, 58, 60>>
====
